---- MODULE Spec2Model ----
(***************************************************************************)
(* Verification model of the bicycle-telemetry processing scripts:         *)
(*   integrated_processor.py  (point extraction, segment scan, road        *)
(*                             quality lookup, wheel diameter, trip loop)  *)
(*   aggregate_route.py       (cross-trip aggregation)                     *)
(*                                                                         *)
(* Units.  Python floats are modelled by exact integers / rationals:       *)
(*   coordinates      1e-5 degree                                          *)
(*   durations        milliseconds                                         *)
(*   wheel diameter   1/10 mm  (711 mm = 7110, 26.0 inch = 6604)           *)
(*   speeds           rational num/den in km/h, output in 1/10 km/h        *)
(*   GPS distance     millimetres, output in 1/10 m                        *)
(* math.pi is the rational 355/113.                                        *)
(***************************************************************************)
EXTENDS Integers, Sequences, FiniteSets, TLC

VARIABLES
    \* ---- process_geojson_file, Step 5: the segment scan
    points,             \* sorted point list
    wheel_diameter_mm,  \* resolved wheel diameter (1/10 mm)
    road_quality_data,  \* result of the scorer, or the "None" record
    i,                  \* segment start cursor (1-based)
    new_features,       \* emitted segments
    scan_pc,            \* "idle" | "scan" | "done"
    cand,               \* the candidate handled by the last loop iteration
    \* ---- process_geojson_file, Step 3: extract and sort points
    ex_features,        \* features of the file (those with coordinates)
    ex_idx,             \* number of features handled by the loop
    ex_points,          \* the points list
    ex_pc,              \* "idle" | "extract" | "sorted" | "too_few" | "error"
    \* ---- aggregate_route.aggregate_route_speeds
    segment_data,       \* key -> [speeds, coords, sample_count]
    agg_keys,           \* keys of segment_data in insertion order
    agg_files,          \* number of files the loop has taken from rglob
    agg_input,          \* log of the features read so far
    agg_out,            \* the features of the output collection
    agg_pc,             \* "idle" | "files" | "in_file" | "done"
    \* ---- the quality lookup of one segment
    q_data,             \* road_quality_data of the trip
    q_query,            \* midpoint sample index of the segment
    q_result,           \* road_quality of the segment
    q_pc,               \* "idle" | "call" | "done"
    \* ---- get_wheel_diameter(trip_id, file_metadata, saved_metadata)
    file_metadata,      \* wheel values of the file's metadata feature
    saved_metadata,     \* the entry of the trip in the saved metadata
    wheel_result,       \* returned diameter, 1/10 mm
    wheel_source,       \* "file" | "saved" | "default", the line printed
    wheel_pc,           \* "idle" | "call" | "done"
    \* ---- process_all_trips
    trip_idx,           \* position in the list of *_clean.geojson files
    out_files,          \* trips that have a *_processed.geojson
    partial_files,      \* those of them whose file is an unfinished write
    trip_log,           \* what this run did with each file, in order
    total_files, processed_files, skipped_files,
    already_processed, failed_files, total_segments,
    last_trip,          \* what the last iteration read and did
    trips_pc,           \* "idle" | "loop" | "done" | "crashed"
    \* ---- the speed of one candidate (process_geojson_file, lines 345-354)
    sp_hrot_diff,       \* rotation delta of the candidate
    sp_time_ms,         \* its duration, ms
    sp_d10,             \* wheel diameter, 1/10 mm
    sp_out,             \* [distance, speed] as computed
    sp_pc,              \* "idle" | "call" | "done"
    \* ---- combined_processor.process_all_trips and trips_metadata.json
    cmb_idx,            \* position in the list of *.geojson files
    cmb_store,          \* contents of trips_metadata.json: trip id -> entry
    cmb_saved,          \* saved_metadata, as loaded
    cmb_all_metadata,   \* all_metadata: trip id -> metadata returned for it
    cmb_processed,      \* processed_files
    cmb_last,           \* what the last iteration did
    cmb_pc,              \* "idle" | "start" | "loop" | "done" | "crashed"
    \* ---- process_geojson_file, Steps 2, 4 and 5: scoring, then the scan
    sc_n,               \* len(acc_y_data): the number of features of the file
    sc_points,          \* the sorted point list
    sc_scorer,          \* what calculate_road_quality does when it is called
    sc_rqd,             \* road_quality_data
    sc_features,        \* new_features
    sc_pc,               \* "idle" | "score" | "scan" | "done"
    \* ---- process_geojson_file of both revisions on one file
    rev_data,           \* the file: metadata features, top-level properties, points
    rev_saved,          \* the trip's entry in the saved metadata
    rev_debug,          \* the debug argument
    rev_int,            \* what integrated_processor.process_geojson_file returned
    rev_cmb,            \* what combined_processor.process_geojson_file returned
    rev_pc,              \* "idle" | "call" | "done"
    \* ---- csv_to_geojson_converter.main
    cv_csvs,            \* the CSV files under csv_data, in listing order
    cv_folder,          \* the files of each sensor_data/<sensor> folder
    cv_store,           \* the entries of trips_metadata.json
    cv_store_exists,    \* whether trips_metadata.json exists
    cv_all_metadata,    \* all_metadata of the running main
    cv_idx,             \* position of the loop in cv_csvs
    cv_assigned,        \* the trip ids this run printed, in order
    cv_runs,            \* how many times main was started
    cv_pc               \* "idle" | "start" | "loop" | "done" | "crashed"

scanVars == <<points, wheel_diameter_mm, road_quality_data, i, new_features, scan_pc, cand>>

exVars == <<ex_features, ex_idx, ex_points, ex_pc>>

aggVars == <<segment_data, agg_keys, agg_files, agg_input, agg_out, agg_pc>>

qVars == <<q_data, q_query, q_result, q_pc>>

wheelVars == <<file_metadata, saved_metadata, wheel_result, wheel_source, wheel_pc>>

tripCounters == <<total_files, processed_files, skipped_files,
                  already_processed, failed_files, total_segments>>
tripVars == <<trip_idx, out_files, partial_files, trip_log, tripCounters, last_trip, trips_pc>>

speedVars == <<sp_hrot_diff, sp_time_ms, sp_d10, sp_out, sp_pc>>

cmbVars == <<cmb_idx, cmb_store, cmb_saved, cmb_all_metadata, cmb_processed, cmb_last, cmb_pc>>

scoreVars == <<sc_n, sc_points, sc_scorer, sc_rqd, sc_features, sc_pc>>

revVars == <<rev_data, rev_saved, rev_debug, rev_int, rev_cmb, rev_pc>>

cvVars == <<cv_csvs, cv_folder, cv_store, cv_store_exists, cv_all_metadata, cv_idx,
           cv_assigned, cv_runs, cv_pc>>

vars == <<scanVars, exVars, aggVars, qVars, wheelVars, tripVars, speedVars, cmbVars, scoreVars, revVars, cvVars>>

\* what the actions of one part leave alone
notScan == <<exVars, aggVars, qVars, wheelVars, tripVars, speedVars, cmbVars, scoreVars, revVars, cvVars>>
notEx == <<scanVars, aggVars, qVars, wheelVars, tripVars, speedVars, cmbVars, scoreVars, revVars, cvVars>>
notAgg == <<scanVars, exVars, qVars, wheelVars, tripVars, speedVars, cmbVars, scoreVars, revVars, cvVars>>
notQ == <<scanVars, exVars, aggVars, wheelVars, tripVars, speedVars, cmbVars, scoreVars, revVars, cvVars>>
notTrips == <<scanVars, exVars, aggVars, qVars, wheelVars, speedVars, cmbVars, scoreVars, revVars, cvVars>>
notSpeed == <<scanVars, exVars, aggVars, qVars, wheelVars, tripVars, cmbVars, scoreVars, revVars, cvVars>>
notWheel == <<scanVars, exVars, aggVars, qVars, tripVars, speedVars, cmbVars, scoreVars, revVars, cvVars>>
notCmb == <<scanVars, exVars, aggVars, qVars, wheelVars, tripVars, speedVars, scoreVars, revVars, cvVars>>
notScore == <<scanVars, exVars, aggVars, qVars, wheelVars, tripVars, speedVars, cmbVars, revVars, cvVars>>
notRev == <<scanVars, exVars, aggVars, qVars, wheelVars, tripVars, speedVars, cmbVars, scoreVars, cvVars>>
notCv == <<scanVars, exVars, aggVars, qVars, wheelVars, tripVars, speedVars, cmbVars, scoreVars, revVars>>

(***************************************************************************)
(* Bounds of the model                                                     *)
(***************************************************************************)
MaxPoints == 3
MaxFeatures == 3
MaxReads == 3
MaxWindows == 3

(***************************************************************************)
(* Program constants                                                       *)
(***************************************************************************)
DEFAULT_WHEEL_DIAMETER_MM == 711
SAMPLE_RATE_HZ == 50
MaxDurationS == 600
MaxGpsJumpM == 1000
SpeedCapKmh == 40
MaxSpeedKmh == 100

\* SECONDS_PER_SAMPLE = 1 / SAMPLE_RATE_HZ, in milliseconds
MsPerSample == 1000 \div SAMPLE_RATE_HZ

\* parse_time returned None
NoTime == -1

\* A raw property value: [kind, val] with kind one of
\*   "absent"  key missing            "none"    JSON null
\*   "empty"   the string ''          "int"     an integer val
\*   "float"   a float with integer part val
\*   "numstr"  a string holding the integer val
\*   "text"    any other string without '-'
\*   "isodate" an ISO date string whose epoch time is val ms
Raw(kind, val) == [kind |-> kind, val |-> val]

\* Python truthiness of a raw property value ("000" is a non-empty string)
RawTruthy(raw) ==
    CASE raw.kind \in {"absent", "none", "empty"} -> FALSE
      [] raw.kind \in {"int", "float"} -> raw.val # 0
      [] OTHER -> TRUE

\* parse_time(HH:mm:ss, SSS): time of day in ms; None when either field is
\* falsy or strptime / int() raise.  A "clock" value is a well-formed
\* HH:mm:ss string, val its time of day in ms.
parse_time(time_str, milliseconds) ==
    IF ~RawTruthy(time_str) \/ ~RawTruthy(milliseconds) THEN NoTime
    ELSE IF time_str.kind = "clock" /\ milliseconds.kind \in {"int", "float", "numstr"}
    THEN time_str.val + milliseconds.val
    ELSE NoTime

(***************************************************************************)
(* Arithmetic helpers                                                      *)
(***************************************************************************)
Abs(x) == IF x < 0 THEN -x ELSE x

\* round(num/den) to the nearest integer, ties to even (Python's round);
\* num >= 0, den > 0
RoundHalfEven(num, den) ==
    LET q == num \div den
        r == num % den
    IN  IF 2 * r < den THEN q
        ELSE IF 2 * r > den THEN q + 1
        ELSE IF q % 2 = 0 THEN q ELSE q + 1

\* num/den > k  and  num/den < k, without forming k * den
RatGT(rat, k) ==
    \/ rat.num \div rat.den > k
    \/ (rat.num \div rat.den = k /\ rat.num % rat.den # 0)

RatLT(rat, k) == rat.num \div rat.den < k

(***************************************************************************)
(* haversine_distance: great-circle distance in millimetres.  The values   *)
(* are those of the source formula (R = 6371000) on the model's positions. *)
(***************************************************************************)
PosA == <<490000, 5237000>>     \* lon 4.90000, lat 52.37000
PosB == <<490010, 5237000>>     \* 6.789 m east of PosA
PosC == <<490010, 5238000>>     \* 1111.9 m north of PosB

Positions == {PosA, PosB, PosC}

GreatCircleMm(p, q) ==
    IF p = q THEN 0
    ELSE IF {p, q} = {PosA, PosB} THEN 6789
    ELSE IF {p, q} = {PosA, PosC} THEN 1111969
    ELSE IF {p, q} = {PosB, PosC} THEN 1111949
    ELSE 0

haversine_distance(lon1, lat1, lon2, lat2) ==
    IF lon1 = 0 \/ lat1 = 0 \/ lon2 = 0 \/ lat2 = 0 THEN 0
    ELSE GreatCircleMm(<<lon1, lat1>>, <<lon2, lat2>>)

(***************************************************************************)
(* map_road_quality_to_segments / get_quality_at_sample                    *)
(***************************************************************************)
NoQualityData == [present |-> FALSE, road_quality |-> <<>>, time_windows |-> <<>>]

\* mutant: the last window at or before the sample, the first if there is none
ArgMinAbs_Floor(time_windows, sample_idx) ==
    IF \E k \in 1..Len(time_windows) : time_windows[k] <= sample_idx
    THEN CHOOSE k \in 1..Len(time_windows) :
            /\ time_windows[k] <= sample_idx
            /\ \A m \in (k + 1)..Len(time_windows) : time_windows[m] > sample_idx
    ELSE 1

\* np.argmin(np.abs(time_windows - sample_idx)): first index of the minimum
ArgMinAbs(time_windows, sample_idx) ==
    CHOOSE k \in 1..Len(time_windows) :
        /\ \A m \in 1..Len(time_windows) :
              Abs(time_windows[k] - sample_idx) <= Abs(time_windows[m] - sample_idx)
        /\ \A m \in 1..(k - 1) :
              Abs(time_windows[m] - sample_idx) > Abs(time_windows[k] - sample_idx)

get_quality_at_sample(rqd, sample_idx) ==
    IF Len(rqd.time_windows) = 0 THEN 0
    ELSE rqd.road_quality[ArgMinAbs(rqd.time_windows, sample_idx)]

\* quality_lookup(midpoint_sample) if quality_lookup else 0
QualityLookup(rqd, sample_idx) ==
    IF ~rqd.present THEN 0 ELSE get_quality_at_sample(rqd, sample_idx)

(***************************************************************************)
(* The segment scan of process_geojson_file (Step 5)                       *)
(***************************************************************************)
\* mutant: the end candidate is the next point
NextJ_Adjacent(pts, s) == s + 1

\* inner while: first index after i whose counter differs, or Len + 1
NextJ(pts, s) ==
    IF \E j \in (s + 1)..Len(pts) : pts[j].hrot # pts[s].hrot
    THEN CHOOSE j \in (s + 1)..Len(pts) :
            /\ pts[j].hrot # pts[s].hrot
            /\ \A m \in (s + 1)..(j - 1) : pts[m].hrot = pts[s].hrot
    ELSE Len(pts) + 1

\* mutant: the duration always comes from the sample counter
TimeDiffMs_SamplesOnly(sp, ep) == (ep.samples - sp.samples) * MsPerSample

\* elapsed duration in ms: timestamps when both exist, else sample count
TimeDiffMs(sp, ep) ==
    IF sp.time # NoTime /\ ep.time # NoTime
    THEN ep.time - sp.time
    ELSE (ep.samples - sp.samples) * MsPerSample

\* mutant: the 600 s upper limit is not checked
DurationRejected_NoUpper(t) == t <= 0

\* "Skip unrealistic or zero durations"
DurationRejected(t) == t <= 0 \/ t > MaxDurationS * 1000

\* mutant: the speed is computed from the magnitude of the delta
RawSpeed_AbsDelta(hrot_diff, t, d10) ==
    IF hrot_diff # 0 /\ t > 0
    THEN [num |-> Abs(hrot_diff) * d10 * 639, den |-> 1130 * t]
    ELSE [num |-> 0, den |-> 1]

\* mutant: one revolution per pulse
WheelDistance_PerPulse(hrot_diff, d10) ==
    [num |-> hrot_diff * d10 * 355, den |-> 10 * 113]

\* distance_m = (hrot_diff / 2.0) * wheel_circumference_m, as a rational in
\* mm: circumference = d10 / 10 * pi mm, pi = 355 / 113
WheelDistance(hrot_diff, d10) ==
    [num |-> hrot_diff * d10 * 355, den |-> 2 * 10 * 113]

\* speed in km/h as a rational:
\*   (hrot_diff / 2.0) * (d_mm / 1000 * pi) / seconds * 3.6
\*   = hrot_diff * d10 * 639 / (1130 * ms)         with pi = 355 / 113
RawSpeed(hrot_diff, t, d10) ==
    IF hrot_diff > 0 /\ t > 0
    THEN [num |-> hrot_diff * d10 * 639, den |-> 1130 * t]
    ELSE [num |-> 0, den |-> 1]

\* "Skip unrealistic GPS jumps"
GpsRejected(gps_mm) == gps_mm > MaxGpsJumpM * 1000

\* mutant: no cap
CapSpeed_None(speed) == speed

\* "Cap speed safely (40 km/h)"
CapSpeed(speed) ==
    IF RatGT(speed, SpeedCapKmh) THEN [num |-> SpeedCapKmh, den |-> 1] ELSE speed

\* "Only create segments with movement and reasonable speeds"
FinalCheck(sp, ep, speed) ==
    (sp.lon # ep.lon \/ sp.lat # ep.lat) /\ RatLT(speed, MaxSpeedKmh)

\* the feature appended to new_features
MakeFeature(sp, ep, speed, t, gps_mm, hrot_diff, rqd, d10) ==
    [ start          |-> <<sp.lon, sp.lat>>,
      end            |-> <<ep.lon, ep.lat>>,
      Speed          |-> RoundHalfEven(10 * speed.num, speed.den),
      road_quality   |-> QualityLookup(rqd, (sp.samples + ep.samples) \div 2),
      hrot_diff      |-> hrot_diff,
      sample_diff    |-> ep.samples - sp.samples,
      time_diff_ms   |-> t,
      gps_distance_dm |-> RoundHalfEven(gps_mm, 100),
      wheel_diameter_mm |-> d10 ]

\* One iteration of the outer while loop started at cursor s: the candidate
\* (s, NextJ), the quantities the loop body computes for it, and its outcome.
Candidate(pts, s, rqd, d10) ==
    LET j   == NextJ(pts, s)
        sp  == pts[s]
        ep  == pts[j]
        t   == TimeDiffMs(sp, ep)
        hd  == ep.hrot - sp.hrot
        raw == RawSpeed(hd, t, d10)
        gps == haversine_distance(sp.lon, sp.lat, ep.lon, ep.lat)
        spd == CapSpeed(raw)
        det(o) == [outcome |-> o, i |-> s, j |-> j, time_diff_ms |-> t,
                   hrot_diff |-> hd, raw |-> raw, gps_mm |-> gps,
                   start |-> <<sp.lon, sp.lat>>, end |-> <<ep.lon, ep.lat>>]
    IN  IF j > Len(pts) THEN [outcome |-> "break", i |-> s, j |-> j]
        ELSE IF DurationRejected(t) THEN det("bad_duration")
        ELSE IF GpsRejected(gps) THEN det("gps_jump")
        ELSE IF FinalCheck(sp, ep, spd)
        THEN det("emit") @@ [feature |-> MakeFeature(sp, ep, spd, t, gps, hd, rqd, d10)]
        ELSE det("discard")

NoCand == [outcome |-> "none"]

\* mutant: a candidate rejected for its duration leaves the cursor where it is
ScanStep_RejectStays(outcome) ==
    /\ scan_pc = "scan"
    /\ i < Len(points)
    /\ LET c == Candidate(points, i, road_quality_data, wheel_diameter_mm)
       IN  /\ c.outcome = outcome
           /\ cand' = c
           /\ IF outcome = "break"
              THEN scan_pc' = "done" /\ i' = i
              ELSE scan_pc' = "scan" /\ i' = IF outcome = "bad_duration" THEN i ELSE c.j
           /\ new_features' = IF outcome = "emit"
                              THEN Append(new_features, c.feature)
                              ELSE new_features
    /\ UNCHANGED <<points, wheel_diameter_mm, road_quality_data>>

\* mutant: a rejected candidate ends the scan
ScanStep_RejectAborts(outcome) ==
    /\ scan_pc = "scan"
    /\ i < Len(points)
    /\ LET c == Candidate(points, i, road_quality_data, wheel_diameter_mm)
       IN  /\ c.outcome = outcome
           /\ cand' = c
           /\ IF outcome \in {"break", "bad_duration", "gps_jump"}
              THEN scan_pc' = "done" /\ i' = i
              ELSE scan_pc' = "scan" /\ i' = c.j
           /\ new_features' = IF outcome = "emit"
                              THEN Append(new_features, c.feature)
                              ELSE new_features
    /\ UNCHANGED <<points, wheel_diameter_mm, road_quality_data>>

\* while i < len(points) - 1   (0-based)  ==  i < Len(points)   (1-based)
ScanStep(outcome) ==
    /\ scan_pc = "scan"
    /\ i < Len(points)
    /\ LET c == Candidate(points, i, road_quality_data, wheel_diameter_mm)
       IN  /\ c.outcome = outcome
           /\ cand' = c
           /\ IF outcome = "break"
              THEN scan_pc' = "done" /\ i' = i
              ELSE scan_pc' = "scan" /\ i' = c.j
           /\ new_features' = IF outcome = "emit"
                              THEN Append(new_features, c.feature)
                              ELSE new_features
    /\ UNCHANGED <<points, wheel_diameter_mm, road_quality_data>>

\* j ran past the end: break
ScanBreak == ScanStep("break") /\ UNCHANGED notScan
\* duration <= 0 or > 600 s: i = j, continue
ScanRejectDuration == ScanStep("bad_duration") /\ UNCHANGED notScan
\* GPS jump > 1000 m: i = j, continue
ScanRejectGps == ScanStep("gps_jump") /\ UNCHANGED notScan
\* the final check passes: append the feature, i = j
ScanEmit == ScanStep("emit") /\ UNCHANGED notScan
\* the final check fails: i = j
ScanDiscard == ScanStep("discard") /\ UNCHANGED notScan

\* the loop condition fails
ScanExit ==
    /\ scan_pc = "scan"
    /\ ~(i < Len(points))
    /\ scan_pc' = "done"
    /\ UNCHANGED <<points, wheel_diameter_mm, road_quality_data, i, new_features, cand>>
    /\ UNCHANGED notScan

(***************************************************************************)
(* Inputs of the scan                                                      *)
(***************************************************************************)
HRotValues == {1, 2}
SampleValues == {0, 2, 30002}

\* wall-clock time of day (ms) carried by the sample with a given index, when
\* the record has one: 500 ms, then back 410 ms (clock set back)
ClockMs(samples) ==
    IF samples = 0 THEN 1000 ELSE IF samples = 2 THEN 1500 ELSE 1090

\* the HH:mm:ss and SSS fields of a record.  With a clock: "00:00:01" and
\* a three-digit string.  Without: both fields missing, or (records with
\* counter 2) the time of day and the number 0 as SSS.
StampStr(clock, h) ==
    IF clock \/ h = 2 THEN Raw("clock", 1000) ELSE Raw("absent", 0)

StampMs(clock, h, s) ==
    IF clock THEN Raw("numstr", ClockMs(s) - 1000)
    ELSE IF h = 2 THEN Raw("int", 0) ELSE Raw("absent", 0)

PointSet ==
    { [lon |-> p[1], lat |-> p[2], samples |-> s, hrot |-> h,
       time_str |-> StampStr(clock, h), time_ms |-> StampMs(clock, h, s),
       time |-> parse_time(StampStr(clock, h), StampMs(clock, h, s))] :
        p \in Positions, s \in SampleValues, h \in HRotValues, clock \in BOOLEAN }

\* points.sort(key=lambda p: p['samples'])
IsSortedBySamples(pts) ==
    \A k \in 1..(Len(pts) - 1) : pts[k].samples <= pts[k + 1].samples

QualityChoices ==
    { NoQualityData,
      [present |-> TRUE, road_quality |-> <<1, 3, 5>>, time_windows |-> <<50, 150, 250>>] }

ScanInit ==
    /\ \E n \in 2..MaxPoints :
          points \in {pts \in [1..n -> PointSet] : IsSortedBySamples(pts)}
    /\ wheel_diameter_mm = DEFAULT_WHEEL_DIAMETER_MM * 10
    /\ road_quality_data \in QualityChoices
    /\ i = 1
    /\ new_features = <<>>
    /\ scan_pc = "scan"
    /\ cand = NoCand

ScanNext ==
    \/ ScanBreak
    \/ ScanRejectDuration
    \/ ScanRejectGps
    \/ ScanEmit
    \/ ScanDiscard
    \/ ScanExit

ScanIdle ==
    /\ points = <<>>
    /\ wheel_diameter_mm = DEFAULT_WHEEL_DIAMETER_MM * 10
    /\ road_quality_data = NoQualityData
    /\ i = 1
    /\ new_features = <<>>
    /\ scan_pc = "idle"
    /\ cand = NoCand

(***************************************************************************)
(* process_geojson_file, Step 3: extract and sort points                   *)
(***************************************************************************)
\* props.get(key, 0): a missing key reads as the integer 0
GetOrZero(raw) == IF raw.kind = "absent" THEN Raw("int", 0) ELSE raw

\* mutant: a date string is malformed like any other text
safe_int_NoDate(value, default) ==
    IF value.kind \in {"none", "empty"} THEN default
    ELSE IF value.kind \in {"int", "float", "numstr"} THEN value.val
    ELSE default

\* int(value) for numbers (a float is truncated) and integer strings; a
\* string with '-' that fromisoformat accepts gives its epoch time in ms
safe_int(value, default) ==
    IF value.kind \in {"none", "empty"} THEN default
    ELSE IF value.kind \in {"int", "float", "numstr"} THEN value.val
    ELSE IF value.kind = "isodate" THEN value.val
    ELSE default

\* mutant: ties are put in front of the equal elements already placed
InsertSorted_Unstable(sorted, p) ==
    LET n == Cardinality({k \in 1..Len(sorted) : sorted[k].samples < p.samples})
    IN  SubSeq(sorted, 1, n) \o <<p>> \o SubSeq(sorted, n + 1, Len(sorted))

\* list.sort(key=...) is stable: p goes behind every element whose key is
\* not greater than its own
InsertSorted(sorted, p) ==
    LET n == Cardinality({k \in 1..Len(sorted) : sorted[k].samples <= p.samples})
    IN  SubSeq(sorted, 1, n) \o <<p>> \o SubSeq(sorted, n + 1, Len(sorted))

RECURSIVE SortBySamples(_)
SortBySamples(seq) ==
    IF seq = <<>> THEN <<>>
    ELSE InsertSorted(SortBySamples(SubSeq(seq, 1, Len(seq) - 1)), seq[Len(seq)])

\* what the loop body does with one feature
CoordSkipped(f) == f.coord \in {"short", "null", "zero"}
CoordRaises(f) == f.coord = "text"

ExtractedPoint(f, idx) ==
    [lon |-> PosA[1], lat |-> PosA[2],
     samples |-> safe_int(GetOrZero(f.Samples), 0), idx |-> idx]

\* one iteration of "for idx, feature in enumerate(features)"
ExtractFeature ==
    /\ ex_pc = "extract"
    /\ ex_idx < Len(ex_features)
    /\ LET f == ex_features[ex_idx + 1]
       IN  IF CoordRaises(f)
           THEN ex_pc' = "error" /\ ex_points' = <<>> /\ ex_idx' = ex_idx
           ELSE /\ ex_pc' = "extract"
                /\ ex_idx' = ex_idx + 1
                /\ ex_points' = IF CoordSkipped(f) THEN ex_points
                                ELSE Append(ex_points, ExtractedPoint(f, ex_idx + 1))
    /\ UNCHANGED ex_features
    /\ UNCHANGED notEx

\* points.sort(...); if len(points) < 2: return None, file_metadata
ExtractSort ==
    /\ ex_pc = "extract"
    /\ ex_idx = Len(ex_features)
    /\ ex_points' = SortBySamples(ex_points)
    /\ ex_pc' = IF Len(ex_points) < 2 THEN "too_few" ELSE "sorted"
    /\ UNCHANGED <<ex_features, ex_idx>>
    /\ UNCHANGED notEx

\* the last coordinate pair of a feature: two non-zero numbers, fewer than
\* two coordinates, a null, a zero, or a string that is not a number
CoordKinds == {"ok", "short", "null", "zero", "text"}

\* Samples values: absent, null, '', 2, 5, 2.7, "5", "n/a", "1970-01-02"
SamplesRaw ==
    {Raw("absent", 0), Raw("none", 0), Raw("empty", 0), Raw("int", 2), Raw("int", 5),
     Raw("float", 2), Raw("numstr", 5), Raw("text", 0), Raw("isodate", 86400000)}

FeatureSet ==
    [coord : {"ok"}, Samples : SamplesRaw]
        \cup [coord : CoordKinds \ {"ok"}, Samples : {Raw("int", 2)}]

ExIdle ==
    /\ ex_features = <<>>
    /\ ex_idx = 0
    /\ ex_points = <<>>
    /\ ex_pc = "idle"

ExtractInit ==
    /\ \E n \in 1..MaxFeatures : ex_features \in [1..n -> FeatureSet]
    /\ ex_idx = 0
    /\ ex_points = <<>>
    /\ ex_pc = "extract"

ExtractNext == ExtractFeature \/ ExtractSort


(***************************************************************************)
(* aggregate_route.py                                                      *)
(***************************************************************************)
\* round(coord, 4): coordinates are in 1e-5 degree, the result in 1e-4 degree
round_coordinate(coord) == RoundHalfEven(coord, 10)

\* Python's tuple comparison a > b on pairs
TupleGT(a, b) == a[1] > b[1] \/ (a[1] = b[1] /\ a[2] > b[2])

\* mutant: the rounded endpoints are not put in order
create_segment_key_Unordered(coords) ==
    << <<round_coordinate(coords[1][1]), round_coordinate(coords[1][2])>>,
       <<round_coordinate(coords[Len(coords)][1]), round_coordinate(coords[Len(coords)][2])>> >>

create_segment_key(coords) ==
    LET start == coords[1]
        end == coords[Len(coords)]
        start_rounded == <<round_coordinate(start[1]), round_coordinate(start[2])>>
        end_rounded == <<round_coordinate(end[1]), round_coordinate(end[2])>>
    IN  IF TupleGT(start_rounded, end_rounded)
        THEN <<end_rounded, start_rounded>>
        ELSE <<start_rounded, end_rounded>>

\* the loop body's two "continue" tests
FeatureSkipped_KeepZero(f) == f.gtype # "LineString"

\* if type != 'LineString': continue ... if speed == 0: continue
FeatureSkipped(f) == f.gtype # "LineString" \/ f.Speed = 0

\* mutant: the bucket takes the coordinates of every segment it receives
Accumulate_LastCoords(acc, f) ==
    LET key == create_segment_key(f.coords)
        old == IF key \in DOMAIN acc.data THEN acc.data[key]
               ELSE [speeds |-> <<>>, coords |-> <<>>, sample_count |-> 0]
        new == [speeds |-> Append(old.speeds, f.Speed),
                coords |-> f.coords,
                sample_count |-> old.sample_count + 1]
    IN  [data |-> (key :> new) @@ acc.data,
         keys |-> IF key \in DOMAIN acc.data THEN acc.keys ELSE Append(acc.keys, key)]

\* the loop body on a feature that is not skipped: defaultdict entry,
\* speeds.append, coords on first insertion, sample_count += 1
Accumulate(acc, f) ==
    LET key == create_segment_key(f.coords)
        old == IF key \in DOMAIN acc.data THEN acc.data[key]
               ELSE [speeds |-> <<>>, coords |-> <<>>, sample_count |-> 0]
        new == [speeds |-> Append(old.speeds, f.Speed),
                coords |-> IF old.coords = <<>> THEN f.coords ELSE old.coords,
                sample_count |-> old.sample_count + 1]
    IN  [data |-> (key :> new) @@ acc.data,
         keys |-> IF key \in DOMAIN acc.data THEN acc.keys ELSE Append(acc.keys, key)]

EmptyAcc == [data |-> <<>>, keys |-> <<>>]

SeqMin(sq) == CHOOSE v \in {sq[k] : k \in 1..Len(sq)} : \A k \in 1..Len(sq) : v <= sq[k]
SeqMax(sq) == CHOOSE v \in {sq[k] : k \in 1..Len(sq)} : \A k \in 1..Len(sq) : v >= sq[k]

RECURSIVE SeqSum(_)
SeqSum(sq) == IF sq = <<>> THEN 0 ELSE sq[1] + SeqSum(Tail(sq))

\* mutant: the speeds are not sorted before the middle one is taken
MedianSpeed_Lower(speeds) ==
    SortSeq(speeds, LAMBDA a, b : a < b)[(Len(speeds) + 1) \div 2]

\* mutant: the list is indexed as it was read
MedianSpeed_Unsorted(speeds) == speeds[(Len(speeds) \div 2) + 1]

\* sorted(speeds)[len(speeds) // 2]
MedianSpeed(speeds) == SortSeq(speeds, LAMBDA a, b : a < b)[(Len(speeds) \div 2) + 1]

\* mutant: single-sample buckets are kept
Retained_AtLeastOne(sample_count) == ~(sample_count < 1)

\* "Only include segments with at least 2 samples"
Retained(sample_count) == ~(sample_count < 2)

\* the output feature of one bucket (speeds in 1/10 km/h)
BucketFeature(key, d) ==
    [key |-> key,
     coords |-> d.coords,
     avg_speed |-> RoundHalfEven(SeqSum(d.speeds), Len(d.speeds)),
     min_speed |-> SeqMin(d.speeds),
     max_speed |-> SeqMax(d.speeds),
     median_speed |-> MedianSpeed(d.speeds),
     sample_count |-> Len(d.speeds),
     speed_variance |-> SeqMax(d.speeds) - SeqMin(d.speeds)]

\* "for segment_key, data in segment_data.items()": in insertion order
RECURSIVE BuildOutput(_, _)
BuildOutput(keys, data) ==
    IF keys = <<>> THEN <<>>
    ELSE LET rest == BuildOutput(Tail(keys), data)
         IN  IF Retained(Len(data[keys[1]].speeds))
             THEN <<BucketFeature(keys[1], data[keys[1]])>> \o rest
             ELSE rest

\* endpoints of the segments in the per-trip files (1e-5 degree)
EndA == <<100001, 200001>>
EndA2 == <<100004, 200002>>     \* same 4-decimal cell as EndA
EndB == <<100009, 200009>>
EndD == <<100001, 200009>>      \* the longitude cell of EndA, the latitude cell of EndB

AggCoords ==
    { <<EndA, EndB>>, <<EndB, EndA>>, <<EndA2, EndB>>, <<EndD, EndA>> }

\* Speed of the moving segments, 1/10 km/h
AggSpeeds == {120, 250}

\* moving segments, a stopped segment (Speed 0) and a feature of another
\* geometry type
AggFeatureSet ==
    [gtype : {"LineString"}, coords : AggCoords, Speed : AggSpeeds]
        \cup {[gtype |-> "LineString", coords |-> <<EndA, EndB>>, Speed |-> 0],
              [gtype |-> "Point", coords |-> <<EndA, EndB>>, Speed |-> 120]}

\* the files rglob("*.geojson") finds under the processed-data directory
AggFiles == <<"602B3/602B3_Trip1_processed.geojson", "602B3/602B3_Trip2_processed.geojson">>

\* for geojson_file in rglob: open and json.load succeed
AggOpenFile ==
    /\ agg_pc = "files"
    /\ agg_files < Len(AggFiles)
    /\ agg_files' = agg_files + 1
    /\ agg_pc' = "in_file"
    /\ UNCHANGED <<segment_data, agg_keys, agg_input, agg_out>>
    /\ UNCHANGED notAgg

\* open, json.load or data['features'] raises: except ... continue
AggOpenFails ==
    /\ agg_pc = "files"
    /\ agg_files < Len(AggFiles)
    /\ agg_files' = agg_files + 1
    /\ UNCHANGED <<segment_data, agg_keys, agg_input, agg_out, agg_pc>>
    /\ UNCHANGED notAgg

\* one iteration of "for feature in data['features']"
AggReadFeature ==
    /\ agg_pc = "in_file"
    /\ Len(agg_input) < MaxReads
    /\ \E f \in AggFeatureSet :
          LET acc == Accumulate([data |-> segment_data, keys |-> agg_keys], f)
          IN  IF FeatureSkipped(f)
              THEN /\ UNCHANGED <<segment_data, agg_keys>>
                   /\ agg_input' = Append(agg_input,
                          [f |-> f, file |-> agg_files, accepted |-> FALSE, key |-> <<>>])
              ELSE /\ segment_data' = acc.data
                   /\ agg_keys' = acc.keys
                   /\ agg_input' = Append(agg_input,
                          [f |-> f, file |-> agg_files, accepted |-> TRUE,
                           key |-> create_segment_key(f.coords)])
    /\ UNCHANGED <<agg_files, agg_out, agg_pc>>
    /\ UNCHANGED notAgg

\* a feature of the file raises (a missing key): except ... continue
AggFeatureRaises ==
    /\ agg_pc = "in_file"
    /\ agg_pc' = "files"
    /\ agg_input' = IF Len(agg_input) < MaxReads
                    THEN Append(agg_input,
                            [f |-> [gtype |-> "Malformed", coords |-> <<>>, Speed |-> 0],
                             file |-> agg_files, accepted |-> FALSE, key |-> <<>>])
                    ELSE agg_input
    /\ UNCHANGED <<segment_data, agg_keys, agg_files, agg_out>>
    /\ UNCHANGED notAgg

\* the features of the file are exhausted
AggEndFile ==
    /\ agg_pc = "in_file"
    /\ agg_pc' = "files"
    /\ UNCHANGED <<segment_data, agg_keys, agg_files, agg_input, agg_out>>
    /\ UNCHANGED notAgg

\* rglob is exhausted: statistics, the >= 2 filter, the output collection
AggFinish ==
    /\ agg_pc = "files"
    /\ agg_out' = BuildOutput(agg_keys, segment_data)
    /\ agg_pc' = "done"
    /\ UNCHANGED <<segment_data, agg_keys, agg_files, agg_input>>
    /\ UNCHANGED notAgg

AggIdle ==
    /\ segment_data = <<>>
    /\ agg_keys = <<>>
    /\ agg_files = 0
    /\ agg_input = <<>>
    /\ agg_out = <<>>
    /\ agg_pc = "idle"

AggInit ==
    /\ segment_data = <<>>
    /\ agg_keys = <<>>
    /\ agg_files = 0
    /\ agg_input = <<>>
    /\ agg_out = <<>>
    /\ agg_pc = "files"

AggNext ==
    \/ AggOpenFile
    \/ AggOpenFails
    \/ AggReadFeature
    \/ AggFeatureRaises
    \/ AggEndFile
    \/ AggFinish

(***************************************************************************)
(* The quality lookup on its own: road_quality of a segment whose midpoint *)
(* sample index is q_query, for the trip's road_quality_data               *)
(***************************************************************************)
WindowValues == {50, 150, 250}
LevelValues == {1, 3, 5}
QueryValues == {0, 100, 120, 200, 300}

QualityDataSet ==
    {NoQualityData} \cup
    UNION { [present : {TRUE}, road_quality : [1..n -> LevelValues],
             time_windows : [1..n -> WindowValues]] : n \in 0..MaxWindows }

\* road_quality = quality_lookup(midpoint_sample) if quality_lookup else 0
QLookup ==
    /\ q_pc = "call"
    /\ q_result' = QualityLookup(q_data, q_query)
    /\ q_pc' = "done"
    /\ UNCHANGED <<q_data, q_query>>
    /\ UNCHANGED notQ

QIdle ==
    /\ q_data = NoQualityData
    /\ q_query = 0
    /\ q_result = 0
    /\ q_pc = "idle"

QInit ==
    /\ q_data \in QualityDataSet
    /\ q_query \in QueryValues
    /\ q_result = 0
    /\ q_pc = "call"

QNext == QLookup

(***************************************************************************)
(* get_wheel_diameter.  A metadata value is [kind, n]:                     *)
(*   "none"  the key is absent          "empty" the empty string           *)
(*   "inch"  a string "<n/10> inch"     "bare"  a string "<n>" without unit*)
(*   "text"  a string with no leading number                               *)
(*   "num"   a JSON number n                                               *)
(* Diameters are in 1/10 mm.                                               *)
(***************************************************************************)
Val(kind, n) == [kind |-> kind, n |-> n]
NoValue == Val("none", 0)
NoDiameter == -1

\* Python truthiness of a metadata value
Truthy(v) ==
    CASE v.kind = "none" -> FALSE
      [] v.kind = "empty" -> FALSE
      [] v.kind = "num" -> v.n # 0
      [] OTHER -> TRUE

\* a or b
Or(a, b) == IF Truthy(a) THEN a ELSE b

\* mutant: a string's number is taken as millimetres
parse_wheel_diameter_NoInch(value) ==
    IF ~Truthy(value) THEN NoDiameter
    ELSE CASE value.kind = "inch" -> value.n
           [] value.kind = "bare" -> value.n * 10
           [] value.kind = "num" -> value.n * 10
           [] OTHER -> NoDiameter

\* parse_wheel_diameter: the first token of a string times 25.4, a number
\* as it is, None for anything else
parse_wheel_diameter(value) ==
    IF ~Truthy(value) THEN NoDiameter
    ELSE CASE value.kind = "inch" -> (value.n * 254) \div 10
           [] value.kind = "bare" -> value.n * 254
           [] value.kind = "num" -> value.n * 10
           [] OTHER -> NoDiameter

\* if diameter:
DiameterFound(diameter) == diameter # NoDiameter /\ diameter # 0

\* wheel_value of the saved entry: flat keys first, then the nested ones
SavedWheelValue(trip_meta) ==
    LET flat == Or(trip_meta.WheelDiam, trip_meta.WheelMm)
    IN  IF ~Truthy(flat) /\ trip_meta.has_metadata
        THEN Or(trip_meta.metadata.WheelDiam, trip_meta.metadata.WheelMm)
        ELSE flat

get_wheel_diameter(file_md, saved) ==
    LET fromFile == parse_wheel_diameter(Or(file_md.WheelDiam, file_md.WheelMm))
        fromSaved == IF saved.kind = "dict"
                     THEN parse_wheel_diameter(SavedWheelValue(saved))
                     ELSE NoDiameter
    IN  IF Truthy(file_md.WheelDiam) \/ Truthy(file_md.WheelMm) \/ file_md.other
        THEN IF DiameterFound(fromFile)
             THEN [diameter |-> fromFile, source |-> "file"]
             ELSE IF DiameterFound(fromSaved)
                  THEN [diameter |-> fromSaved, source |-> "saved"]
                  ELSE [diameter |-> DEFAULT_WHEEL_DIAMETER_MM * 10, source |-> "default"]
        ELSE IF DiameterFound(fromSaved)
             THEN [diameter |-> fromSaved, source |-> "saved"]
             ELSE [diameter |-> DEFAULT_WHEEL_DIAMETER_MM * 10, source |-> "default"]

WheelResolve ==
    /\ wheel_pc = "call"
    /\ LET r == get_wheel_diameter(file_metadata, saved_metadata)
       IN  /\ wheel_result' = r.diameter
           /\ wheel_source' = r.source
    /\ wheel_pc' = "done"
    /\ UNCHANGED <<file_metadata, saved_metadata>>
    /\ UNCHANGED notWheel

WheelDiamValues ==
    {NoValue, Val("empty", 0), Val("inch", 260), Val("inch", 0),
     Val("bare", 650), Val("text", 0), Val("num", 650), Val("num", 0)}
WheelMmValues == {NoValue, Val("num", 700), Val("bare", 700)}

WheelKeys == [WheelDiam : WheelDiamValues, WheelMm : WheelMmValues]
NoWheelKeys == [WheelDiam |-> NoValue, WheelMm |-> NoValue]

\* the metadata of the file: the two wheel keys and whether it has others
FileMetadataSet ==
    { [WheelDiam |-> k.WheelDiam, WheelMm |-> k.WheelMm, other |-> o] :
        k \in WheelKeys, o \in BOOLEAN }

\* the saved entry of the trip: none, not a dict, a flat dict, or a dict
\* with a nested 'metadata' dict
SavedMetadataSet ==
    { [kind |-> "absent", WheelDiam |-> NoValue, WheelMm |-> NoValue,
       has_metadata |-> FALSE, metadata |-> NoWheelKeys],
      [kind |-> "nondict", WheelDiam |-> NoValue, WheelMm |-> NoValue,
       has_metadata |-> FALSE, metadata |-> NoWheelKeys] } \cup
    { [kind |-> "dict", WheelDiam |-> k.WheelDiam, WheelMm |-> k.WheelMm,
       has_metadata |-> FALSE, metadata |-> NoWheelKeys] : k \in WheelKeys } \cup
    { [kind |-> "dict", WheelDiam |-> k.WheelDiam, WheelMm |-> NoValue,
       has_metadata |-> TRUE, metadata |-> n] :
        k \in WheelKeys, n \in [WheelDiam : WheelDiamValues, WheelMm : {NoValue}] }

WheelIdle ==
    /\ file_metadata = [WheelDiam |-> NoValue, WheelMm |-> NoValue, other |-> FALSE]
    /\ saved_metadata = [kind |-> "absent", WheelDiam |-> NoValue, WheelMm |-> NoValue,
                         has_metadata |-> FALSE, metadata |-> NoWheelKeys]
    /\ wheel_result = NoDiameter
    /\ wheel_source = "none"
    /\ wheel_pc = "idle"

WheelInit ==
    /\ file_metadata \in FileMetadataSet
    /\ saved_metadata \in SavedMetadataSet
    /\ wheel_result = NoDiameter
    /\ wheel_source = "none"
    /\ wheel_pc = "call"

WheelNext == WheelResolve

(***************************************************************************)
(* process_all_trips over the *_clean.geojson files of the input folders   *)
(***************************************************************************)
\* SKIP_TRIPS
SKIP_TRIPS == [s \in {"602CD", "604F0"} |-> {"Trip1"}]

\* the files found, sensor folders in sorted order
TripList ==
    << [serial |-> "602B3", trip |-> "Trip1"],
       [serial |-> "602B3", trip |-> "Trip2"],
       [serial |-> "602CD", trip |-> "Trip1"] >>

TripId(t) == <<t.serial, t.trip>>

\* the speed scan from point s on: the features it appends
RECURSIVE ScanFrom(_, _, _, _)
ScanFrom(pts, s, rqd, d10) ==
    IF ~(s < Len(pts)) THEN <<>>
    ELSE LET c == Candidate(pts, s, rqd, d10)
         IN  IF c.outcome = "break" THEN <<>>
             ELSE (IF c.outcome = "emit" THEN <<c.feature>> ELSE <<>>)
                  \o ScanFrom(pts, c.j, rqd, d10)

NoData(error) ==
    [present |-> FALSE, features |-> <<>>, error |-> error, discarded |-> <<>>]

\* mutant: an empty feature list is returned as processed data
process_geojson_file_KeepEmpty(file) ==
    IF ~file.readable THEN NoData(TRUE)
    ELSE IF Len(file.points) < 2 THEN NoData(FALSE)
    ELSE [present |-> TRUE, error |-> FALSE, discarded |-> <<>>,
          features |-> ScanFrom(file.points, 1, NoQualityData,
                                DEFAULT_WHEEL_DIAMETER_MM * 10)]

\* mutant: the except branch hands back what the scan had built
process_geojson_file_KeepBuilt(file) ==
    IF ~file.readable THEN NoData(TRUE)
    ELSE IF Len(file.points) < 2 THEN NoData(FALSE)
    ELSE LET new_feats == ScanFrom(file.points, 1, NoQualityData,
                                   DEFAULT_WHEEL_DIAMETER_MM * 10)
         IN  IF new_feats = <<>> THEN NoData(FALSE)
             ELSE [present |-> TRUE, features |-> new_feats, error |-> file.late_error,
                   discarded |-> <<>>]

\* process_geojson_file: processed data, or None when the file cannot be
\* read (the except branch), has fewer than two points, gives no segment,
\* or an error is raised after the segments were built (the except branch
\* again: new_features is dropped)
process_geojson_file(file) ==
    IF ~file.readable THEN NoData(TRUE)
    ELSE IF Len(file.points) < 2 THEN NoData(FALSE)
    ELSE LET new_feats == ScanFrom(file.points, 1, NoQualityData,
                                   DEFAULT_WHEEL_DIAMETER_MM * 10)
         IN  IF new_feats = <<>> THEN NoData(FALSE)
             ELSE IF file.late_error
             THEN [present |-> FALSE, features |-> <<>>, error |-> TRUE,
                   discarded |-> new_feats]
             ELSE [present |-> TRUE, features |-> new_feats, error |-> FALSE,
                   discarded |-> <<>>]

\* the k-th point of a trip file: sample index 2(k-1), no wall-clock time
TripSampleAt(k) == 2 * (k - 1)
\* a trip that stands at PosA, or one that goes to and fro between PosA
\* and PosB
TripPosAt(moving, k) == IF moving /\ k % 2 = 0 THEN PosB ELSE PosA
TripPoints(n) ==
    { [k \in 1..n |-> [lon |-> TripPosAt(moving, k)[1], lat |-> TripPosAt(moving, k)[2],
                       samples |-> TripSampleAt(k), hrot |-> h[k],
                       time |-> NoTime]] :
        moving \in BOOLEAN, h \in [1..n -> HRotValues] }

\* a file: unreadable (open or json.load raise, or no 'features' key), or
\* its points; late_error: a step after the scan raises (lines 407-411)
TripFileSet ==
    { [readable |-> FALSE, points |-> <<>>, late_error |-> FALSE] } \cup
    UNION { { [readable |-> TRUE, points |-> pts, late_error |-> FALSE] :
                pts \in TripPoints(n) } : n \in 0..MaxPoints } \cup
    UNION { { [readable |-> TRUE, points |-> pts, late_error |-> TRUE] :
                pts \in TripPoints(n) } : n \in 2..MaxPoints }

NoTrip == [trip |-> <<"", "">>, outcome |-> "none"]

TripLoop == trips_pc = "loop" /\ trip_idx <= Len(TripList)

Skipped(t) == t.serial \in DOMAIN SKIP_TRIPS /\ t.trip \in SKIP_TRIPS[t.serial]

\* if serial in SKIP_TRIPS and trip in SKIP_TRIPS[serial]: continue
TripSkip ==
    /\ TripLoop
    /\ Skipped(TripList[trip_idx])
    /\ total_files' = total_files + 1
    /\ skipped_files' = skipped_files + 1
    /\ last_trip' = [trip |-> TripId(TripList[trip_idx]), outcome |-> "skipped"]
    /\ trip_log' = Append(trip_log, "skipped")
    /\ trip_idx' = trip_idx + 1
    /\ UNCHANGED <<out_files, partial_files, processed_files, already_processed, failed_files,
                   total_segments, trips_pc>>
    /\ UNCHANGED notTrips

\* if output_file.exists(): continue
TripAlreadyProcessed ==
    /\ TripLoop
    /\ ~Skipped(TripList[trip_idx])
    /\ TripId(TripList[trip_idx]) \in out_files
    /\ total_files' = total_files + 1
    /\ already_processed' = already_processed + 1
    /\ last_trip' = [trip |-> TripId(TripList[trip_idx]), outcome |-> "already"]
    /\ trip_log' = Append(trip_log, "already")
    /\ trip_idx' = trip_idx + 1
    /\ UNCHANGED <<out_files, partial_files, processed_files, skipped_files, failed_files,
                   total_segments, trips_pc>>
    /\ UNCHANGED notTrips

TripRead(file, outcome) ==
    [trip |-> TripId(TripList[trip_idx]), outcome |-> outcome, file |-> file,
     result |-> process_geojson_file(file)]

\* mutant: the output file is written without looking whether it exists
TripWrite_NoExistsCheck ==
    /\ TripLoop
    /\ ~Skipped(TripList[trip_idx])
    /\ \E file \in TripFileSet :
          LET r == process_geojson_file(file)
          IN  /\ r.present
              /\ out_files' = out_files \cup {TripId(TripList[trip_idx])}
              /\ total_segments' = total_segments + Len(r.features)
              /\ last_trip' = TripRead(file, "written")
    /\ trip_log' = Append(trip_log, "written")
    /\ total_files' = total_files + 1
    /\ processed_files' = processed_files + 1
    /\ trip_idx' = trip_idx + 1
    /\ UNCHANGED <<partial_files, skipped_files, already_processed, failed_files, trips_pc>>
    /\ UNCHANGED notTrips

\* if processed_data: write the output file
TripWrite ==
    /\ TripLoop
    /\ ~Skipped(TripList[trip_idx])
    /\ TripId(TripList[trip_idx]) \notin out_files
    /\ \E file \in TripFileSet :
          LET r == process_geojson_file(file)
          IN  /\ r.present
              /\ out_files' = out_files \cup {TripId(TripList[trip_idx])}
              /\ total_segments' = total_segments + Len(r.features)
              /\ last_trip' = TripRead(file, "written")
    /\ trip_log' = Append(trip_log, "written")
    /\ total_files' = total_files + 1
    /\ processed_files' = processed_files + 1
    /\ trip_idx' = trip_idx + 1
    /\ UNCHANGED <<partial_files, skipped_files, already_processed, failed_files, trips_pc>>
    /\ UNCHANGED notTrips

\* if processed_data: mkdir, open or json.dump raise; nothing in
\* process_all_trips catches it.  At "open" no file is made; at "dump" the
\* file open(..., 'w') made stays, with what was written before the error.
TripWriteFails ==
    /\ TripLoop
    /\ ~Skipped(TripList[trip_idx])
    /\ TripId(TripList[trip_idx]) \notin out_files
    /\ \E file \in TripFileSet, stage \in {"open", "dump"} :
          /\ process_geojson_file(file).present
          /\ out_files' = IF stage = "dump"
                          THEN out_files \cup {TripId(TripList[trip_idx])}
                          ELSE out_files
          /\ partial_files' = IF stage = "dump"
                              THEN partial_files \cup {TripId(TripList[trip_idx])}
                              ELSE partial_files
          /\ last_trip' = TripRead(file, "write_error")
    /\ trip_log' = Append(trip_log, "write_error")
    /\ total_files' = total_files + 1
    /\ trips_pc' = "crashed"
    /\ UNCHANGED <<trip_idx, processed_files, skipped_files, already_processed,
                   failed_files, total_segments>>
    /\ UNCHANGED notTrips

\* else: failed_files += 1
TripFail ==
    /\ TripLoop
    /\ ~Skipped(TripList[trip_idx])
    /\ TripId(TripList[trip_idx]) \notin out_files
    /\ \E file \in TripFileSet :
          LET r == process_geojson_file(file)
          IN  /\ ~r.present
              /\ last_trip' = TripRead(file, "failed")
              /\ trip_log' = Append(trip_log, IF r.error THEN "error" ELSE "failed")
    /\ total_files' = total_files + 1
    /\ failed_files' = failed_files + 1
    /\ trip_idx' = trip_idx + 1
    /\ UNCHANGED <<out_files, partial_files, processed_files, skipped_files, already_processed,
                   total_segments, trips_pc>>
    /\ UNCHANGED notTrips

\* the loops are over: the summary
TripsFinish ==
    /\ trips_pc = "loop"
    /\ trip_idx > Len(TripList)
    /\ trips_pc' = "done"
    /\ UNCHANGED <<trip_idx, out_files, partial_files, trip_log, tripCounters, last_trip>>
    /\ UNCHANGED notTrips

\* the program is started again over the same directories
TripsRerun ==
    /\ trips_pc \in {"done", "crashed"}
    /\ trip_idx' = 1
    /\ trip_log' = <<>>
    /\ total_files' = 0
    /\ processed_files' = 0
    /\ skipped_files' = 0
    /\ already_processed' = 0
    /\ failed_files' = 0
    /\ total_segments' = 0
    /\ last_trip' = NoTrip
    /\ trips_pc' = "loop"
    /\ UNCHANGED <<out_files, partial_files>>
    /\ UNCHANGED notTrips

TripsIdle ==
    /\ trip_idx = 1
    /\ out_files = {}
    /\ partial_files = {}
    /\ trip_log = <<>>
    /\ total_files = 0
    /\ processed_files = 0
    /\ skipped_files = 0
    /\ already_processed = 0
    /\ failed_files = 0
    /\ total_segments = 0
    /\ last_trip = NoTrip
    /\ trips_pc = "idle"

TripsInit ==
    /\ trip_idx = 1
    /\ out_files \in SUBSET {TripId(TripList[k]) : k \in 1..Len(TripList)}
    /\ partial_files = {}
    /\ trip_log = <<>>
    /\ total_files = 0
    /\ processed_files = 0
    /\ skipped_files = 0
    /\ already_processed = 0
    /\ failed_files = 0
    /\ total_segments = 0
    /\ last_trip = NoTrip
    /\ trips_pc = "loop"

TripsNext ==
    \/ TripSkip
    \/ TripAlreadyProcessed
    \/ TripWrite
    \/ TripWriteFails
    \/ TripFail
    \/ TripsFinish
    \/ TripsRerun

(***************************************************************************)
(* The speed of one candidate on its own                                   *)
(***************************************************************************)
SpeedDeltas == {-1, 1, 2, 4}
SpeedDurationsMs == {20, 40, 500, 1000, 600000}
SpeedDiameters == {6500, 6604, 7110}

\* if hrot_diff > 0 and time_diff_seconds > 0: revolutions, distance_m,
\* speed_ms, speed_kmh; else speed_kmh = 0
SpeedCompute ==
    /\ sp_pc = "call"
    /\ sp_out' = [distance |-> IF sp_hrot_diff > 0 /\ sp_time_ms > 0
                               THEN WheelDistance(sp_hrot_diff, sp_d10)
                               ELSE [num |-> 0, den |-> 1],
                  speed |-> RawSpeed(sp_hrot_diff, sp_time_ms, sp_d10)]
    /\ sp_pc' = "done"
    /\ UNCHANGED <<sp_hrot_diff, sp_time_ms, sp_d10>>
    /\ UNCHANGED notSpeed

NoSpeed == [distance |-> [num |-> 0, den |-> 1], speed |-> [num |-> 0, den |-> 1]]

SpeedIdle ==
    /\ sp_hrot_diff = 0
    /\ sp_time_ms = 0
    /\ sp_d10 = DEFAULT_WHEEL_DIAMETER_MM * 10
    /\ sp_out = NoSpeed
    /\ sp_pc = "idle"

SpeedInit ==
    /\ sp_hrot_diff \in SpeedDeltas
    /\ sp_time_ms \in SpeedDurationsMs
    /\ sp_d10 \in SpeedDiameters
    /\ sp_out = NoSpeed
    /\ sp_pc = "call"

SpeedNext == SpeedCompute

(***************************************************************************)
(* combined_processor.py: the file metadata, process_geojson_file and       *)
(* process_all_trips with its save of trips_metadata.json.                  *)
(* A property bag is [WheelDiam, WheelMm, other, rows]: the two wheel keys, *)
(* whether it has another short key (Frequency, ...), and whether it has a  *)
(* key of a sensor data row (one that starts with ",,").                    *)
(***************************************************************************)
EmptyProps == [WheelDiam |-> NoValue, WheelMm |-> NoValue, other |-> FALSE, rows |-> FALSE]

\* a dict is truthy when it has a key
PropsTruthy(props) ==
    props.WheelDiam.kind # "none" \/ props.WheelMm.kind # "none" \/ props.other \/ props.rows

\* the argument get_wheel_diameter receives
FileMd(props) ==
    [WheelDiam |-> props.WheelDiam, WheelMm |-> props.WheelMm,
     other |-> props.other \/ props.rows]

\* combined_processor.extract_metadata_and_features: metadata is the
\* property bag of the last feature without coordinates, or the top-level
\* properties when that is empty
combined_extract_metadata(data) ==
    LET last == IF Len(data.meta) > 0 THEN data.meta[Len(data.meta)] ELSE EmptyProps
    IN  IF ~PropsTruthy(last) /\ data.has_top THEN data.top ELSE last

\* the debug print of combined_processor (lines 288-291) formats distance_m,
\* a local that is bound only once a candidate had hrot_diff > 0: TRUE when
\* the print is reached, with fewer than 3 features built, before that.
\* bound: distance_m is bound; built: len(new_features)
RECURSIVE DebugPrintRaises(_, _, _, _, _)
DebugPrintRaises(pts, s, d10, bound, built) ==
    IF ~(s < Len(pts)) THEN FALSE
    ELSE LET c == Candidate(pts, s, NoQualityData, d10)
         IN  IF c.outcome = "break" THEN FALSE
             ELSE IF c.outcome = "bad_duration"
             THEN DebugPrintRaises(pts, c.j, d10, bound, built)
             ELSE LET b == bound \/ c.hrot_diff > 0
                  IN  IF c.outcome = "gps_jump"
                      THEN DebugPrintRaises(pts, c.j, d10, b, built)
                      ELSE IF built < 3 /\ ~b THEN TRUE
                      ELSE DebugPrintRaises(pts, c.j, d10, b,
                               IF c.outcome = "emit" THEN built + 1 ELSE built)

\* the feature of the combined revision: no road_quality property
WithoutQuality(f) == [k \in DOMAIN f \ {"road_quality"} |-> f[k]]

NoResult(md, has_md, error) ==
    [present |-> FALSE, features |-> <<>>, has_metadata |-> has_md, metadata |-> md,
     error |-> error]

\* combined_processor.process_geojson_file: (processed_data, file_metadata)
combined_process_geojson_file(data, saved, debug) ==
    IF ~data.readable THEN NoResult(EmptyProps, FALSE, TRUE)
    ELSE LET md  == combined_extract_metadata(data)
             d10 == get_wheel_diameter(FileMd(md), saved).diameter
         IN  IF Len(data.points) < 2 THEN NoResult(md, TRUE, FALSE)
             ELSE IF debug /\ DebugPrintRaises(data.points, 1, d10, FALSE, 0)
             THEN NoResult(EmptyProps, FALSE, TRUE)
             ELSE LET new_feats == ScanFrom(data.points, 1, NoQualityData, d10)
                  IN  IF new_feats = <<>> THEN NoResult(md, TRUE, FALSE)
                      ELSE [present |-> TRUE,
                            features |-> [k \in 1..Len(new_feats) |->
                                             WithoutQuality(new_feats[k])],
                            has_metadata |-> TRUE, metadata |-> md, error |-> FALSE]

TripIds == {TripId(TripList[k]) : k \in 1..Len(TripList)}

\* an entry of trips_metadata.json, in the form get_wheel_diameter reads,
\* with whether it has the source_file key
AbsentEntry ==
    [kind |-> "absent", WheelDiam |-> NoValue, WheelMm |-> NoValue,
     has_metadata |-> FALSE, metadata |-> NoWheelKeys, source_file |-> FALSE]

\* csv_to_geojson_converter: {"source_file": file} updated with the metadata
CsvEntry(wheel_diam) ==
    [kind |-> "dict", WheelDiam |-> wheel_diam, WheelMm |-> NoValue,
     has_metadata |-> FALSE, metadata |-> NoWheelKeys, source_file |-> TRUE]

\* all_metadata[trip_id] = metadata: the file's property bag, flat
FlatEntry(props) ==
    [kind |-> "dict", WheelDiam |-> props.WheelDiam, WheelMm |-> props.WheelMm,
     has_metadata |-> FALSE, metadata |-> NoWheelKeys, source_file |-> FALSE]

WheelProps ==
    [WheelDiam |-> Val("inch", 260), WheelMm |-> NoValue, other |-> TRUE, rows |-> FALSE]

\* two points one second apart, the second at PosB, with the given counters
TwoPoints(h1, h2) ==
    << [lon |-> PosA[1], lat |-> PosA[2], samples |-> 0, hrot |-> h1, time |-> NoTime],
       [lon |-> PosB[1], lat |-> PosB[2], samples |-> 50, hrot |-> h2, time |-> NoTime] >>

\* the files of a run: unreadable, or zero or one metadata feature and no
\* point, a forward segment or a backward one
CmbDataSet ==
    { [readable |-> FALSE, meta |-> <<>>, has_top |-> FALSE, top |-> EmptyProps,
       points |-> <<>>] } \cup
    { [readable |-> TRUE, meta |-> m, has_top |-> FALSE, top |-> EmptyProps, points |-> pts] :
        m \in {<<>>, <<WheelProps>>},
        pts \in {<<>>, TwoPoints(1, 2), TwoPoints(2, 1)} }

\* idx of enumerate(geojson_files): the position of the file in its folder
FolderIdx(k) ==
    Cardinality({m \in 1..(k - 1) : TripList[m].serial = TripList[k].serial})

\* debug = (idx == 0 and processed_files == 0)
CmbDebug == FolderIdx(cmb_idx) = 0 /\ cmb_processed = 0

NoMetadata == [t \in {} |-> EmptyProps]

CmbLoop == cmb_pc = "loop" /\ cmb_idx <= Len(TripList)

\* saved_metadata = load_metadata()
CmbLoad ==
    /\ cmb_pc = "start"
    /\ cmb_saved' = cmb_store
    /\ cmb_pc' = "loop"
    /\ UNCHANGED <<cmb_idx, cmb_store, cmb_all_metadata, cmb_processed, cmb_last>>
    /\ UNCHANGED notCmb

\* if serial in SKIP_TRIPS and trip in SKIP_TRIPS[serial]: continue
CmbSkip ==
    /\ CmbLoop
    /\ Skipped(TripList[cmb_idx])
    /\ cmb_idx' = cmb_idx + 1
    /\ cmb_last' = [trip |-> TripId(TripList[cmb_idx]), outcome |-> "skipped"]
    /\ UNCHANGED <<cmb_store, cmb_saved, cmb_all_metadata, cmb_processed, cmb_pc>>
    /\ UNCHANGED notCmb

\* if processed_data: write the output, processed_files += 1,
\* if metadata: all_metadata[trip_id] = metadata
CmbWrite ==
    /\ CmbLoop
    /\ ~Skipped(TripList[cmb_idx])
    /\ \E data \in CmbDataSet :
          LET t == TripId(TripList[cmb_idx])
              r == combined_process_geojson_file(data, cmb_saved[t], CmbDebug)
          IN  /\ r.present
              /\ cmb_all_metadata' =
                    IF PropsTruthy(r.metadata)
                    THEN [u \in DOMAIN cmb_all_metadata \cup {t} |->
                             IF u = t THEN r.metadata ELSE cmb_all_metadata[u]]
                    ELSE cmb_all_metadata
              /\ cmb_last' = [trip |-> t, outcome |-> "written", data |-> data]
    /\ cmb_processed' = cmb_processed + 1
    /\ cmb_idx' = cmb_idx + 1
    /\ UNCHANGED <<cmb_store, cmb_saved, cmb_pc>>
    /\ UNCHANGED notCmb

\* if processed_data: open or json.dump raise; nothing catches it
CmbWriteFails ==
    /\ CmbLoop
    /\ ~Skipped(TripList[cmb_idx])
    /\ \E data \in CmbDataSet :
          LET t == TripId(TripList[cmb_idx])
          IN  /\ combined_process_geojson_file(data, cmb_saved[t], CmbDebug).present
              /\ cmb_last' = [trip |-> t, outcome |-> "write_error", data |-> data]
    /\ cmb_pc' = "crashed"
    /\ UNCHANGED <<cmb_idx, cmb_store, cmb_saved, cmb_all_metadata, cmb_processed>>
    /\ UNCHANGED notCmb

\* else: failed_files += 1
CmbFail ==
    /\ CmbLoop
    /\ ~Skipped(TripList[cmb_idx])
    /\ \E data \in CmbDataSet :
          LET t == TripId(TripList[cmb_idx])
          IN  /\ ~combined_process_geojson_file(data, cmb_saved[t], CmbDebug).present
              /\ cmb_last' = [trip |-> t, outcome |-> "failed", data |-> data]
    /\ cmb_idx' = cmb_idx + 1
    /\ UNCHANGED <<cmb_store, cmb_saved, cmb_all_metadata, cmb_processed, cmb_pc>>
    /\ UNCHANGED notCmb

\* if all_metadata: saved_metadata.update(all_metadata); json.dump to
\* trips_metadata.json
CmbSaveMetadata ==
    /\ cmb_pc = "loop"
    /\ cmb_idx > Len(TripList)
    /\ DOMAIN cmb_all_metadata # {}
    /\ cmb_saved' = [t \in TripIds |->
                        IF t \in DOMAIN cmb_all_metadata
                        THEN FlatEntry(cmb_all_metadata[t])
                        ELSE cmb_saved[t]]
    /\ cmb_store' = cmb_saved'
    /\ cmb_pc' = "done"
    /\ UNCHANGED <<cmb_idx, cmb_all_metadata, cmb_processed, cmb_last>>
    /\ UNCHANGED notCmb

\* all_metadata is empty: the file is not opened for writing
CmbNothingToSave ==
    /\ cmb_pc = "loop"
    /\ cmb_idx > Len(TripList)
    /\ DOMAIN cmb_all_metadata = {}
    /\ cmb_pc' = "done"
    /\ UNCHANGED <<cmb_idx, cmb_store, cmb_saved, cmb_all_metadata, cmb_processed, cmb_last>>
    /\ UNCHANGED notCmb

CmbIdle ==
    /\ cmb_idx = 1
    /\ cmb_store = [t \in TripIds |-> AbsentEntry]
    /\ cmb_saved = [t \in TripIds |-> AbsentEntry]
    /\ cmb_all_metadata = NoMetadata
    /\ cmb_processed = 0
    /\ cmb_last = NoTrip
    /\ cmb_pc = "idle"

\* the store holds what csv_to_geojson_converter wrote for some of the trips
CmbInit ==
    /\ cmb_idx = 1
    /\ cmb_store \in [TripIds -> {AbsentEntry, CsvEntry(Val("inch", 275))}]
    /\ cmb_saved = [t \in TripIds |-> AbsentEntry]
    /\ cmb_all_metadata = NoMetadata
    /\ cmb_processed = 0
    /\ cmb_last = NoTrip
    /\ cmb_pc = "start"

CmbNext ==
    \/ CmbLoad
    \/ CmbSkip
    \/ CmbWrite
    \/ CmbWriteFails
    \/ CmbFail
    \/ CmbSaveMetadata
    \/ CmbNothingToSave

(***************************************************************************)
(* process_geojson_file, Step 2: road_quality_data of a trip, and the       *)
(* segments built with it.  calculate_road_quality is imported from         *)
(* road_quality_calculator: it returns the window scores or raises.         *)
(***************************************************************************)
MinAccSamples == 200

\* mutant: 200 values are enough
EnoughData_AtLeast(n) == n >= MinAccSamples

\* if len(acc_y_data) > 200
EnoughData(n) == n > MinAccSamples

ScorerRaises == [raises |-> TRUE, data |-> NoQualityData]

ScorerOutcomes ==
    { ScorerRaises,
      [raises |-> FALSE,
       data |-> [present |-> TRUE, road_quality |-> <<>>, time_windows |-> <<>>]],
      [raises |-> FALSE,
       data |-> [present |-> TRUE, road_quality |-> <<1, 3, 5>>,
                 time_windows |-> <<0, 2, 4>>]] }

\* else: "Not enough acceleration data": road_quality_data stays None
ScoreNotEnough ==
    /\ sc_pc = "score"
    /\ ~EnoughData(sc_n)
    /\ sc_rqd' = NoQualityData
    /\ sc_pc' = "scan"
    /\ UNCHANGED <<sc_n, sc_points, sc_scorer, sc_features>>
    /\ UNCHANGED notScore

\* try: road_quality_data = calculate_road_quality(...)
ScoreCalculated ==
    /\ sc_pc = "score"
    /\ EnoughData(sc_n)
    /\ ~sc_scorer.raises
    /\ sc_rqd' = sc_scorer.data
    /\ sc_pc' = "scan"
    /\ UNCHANGED <<sc_n, sc_points, sc_scorer, sc_features>>
    /\ UNCHANGED notScore

\* except Exception: road_quality_data stays None
ScoreFails ==
    /\ sc_pc = "score"
    /\ EnoughData(sc_n)
    /\ sc_scorer.raises
    /\ sc_rqd' = NoQualityData
    /\ sc_pc' = "scan"
    /\ UNCHANGED <<sc_n, sc_points, sc_scorer, sc_features>>
    /\ UNCHANGED notScore

\* Steps 4 and 5: the lookup is made and the scan builds new_features
ScoreScan ==
    /\ sc_pc = "scan"
    /\ sc_features' = ScanFrom(sc_points, 1, sc_rqd, DEFAULT_WHEEL_DIAMETER_MM * 10)
    /\ sc_pc' = "done"
    /\ UNCHANGED <<sc_n, sc_points, sc_scorer, sc_rqd>>
    /\ UNCHANGED notScore

ScoreIdle ==
    /\ sc_n = 0
    /\ sc_points = <<>>
    /\ sc_scorer = ScorerRaises
    /\ sc_rqd = NoQualityData
    /\ sc_features = <<>>
    /\ sc_pc = "idle"

\* a file of sc_n features, of which the points are those with coordinates
ScoreInit ==
    /\ \E n \in 2..MaxPoints :
          /\ sc_points \in TripPoints(n)
          /\ sc_n \in {n, MinAccSamples, MinAccSamples + 1}
    /\ sc_scorer \in ScorerOutcomes
    /\ sc_rqd = NoQualityData
    /\ sc_features = <<>>
    /\ sc_pc = "score"

ScoreNext ==
    \/ ScoreNotEnough
    \/ ScoreCalculated
    \/ ScoreFails
    \/ ScoreScan

(***************************************************************************)
(* process_geojson_file of integrated_processor.py and of                   *)
(* combined_processor.py, called on the same file                           *)
(***************************************************************************)
MaxMetaFeatures == 2

\* the keys integrated_processor keeps: important_keys, or keys that do not
\* start with ",," and are shorter than 100 characters
Kept(props) == [props EXCEPT !.rows = FALSE]

\* metadata[key] = value, for every kept key of a later feature
Merge(a, b) ==
    [WheelDiam |-> IF b.WheelDiam.kind # "none" THEN b.WheelDiam ELSE a.WheelDiam,
     WheelMm |-> IF b.WheelMm.kind # "none" THEN b.WheelMm ELSE a.WheelMm,
     other |-> a.other \/ b.other,
     rows |-> a.rows \/ b.rows]

RECURSIVE MergeAll(_)
MergeAll(meta) ==
    IF meta = <<>> THEN EmptyProps
    ELSE Merge(MergeAll(SubSeq(meta, 1, Len(meta) - 1)), Kept(meta[Len(meta)]))

\* integrated_processor.extract_metadata_and_features: the kept keys of all
\* features without coordinates, or those of the top-level properties when
\* there are none
integrated_extract_metadata(data) ==
    LET merged == MergeAll(data.meta)
    IN  IF ~PropsTruthy(merged) /\ data.has_top THEN Kept(data.top) ELSE merged

\* integrated_processor.process_geojson_file for a trip without quality
\* data: (processed_data, file_metadata)
integrated_process_geojson_file(data, saved, debug) ==
    IF ~data.readable THEN NoResult(EmptyProps, FALSE, TRUE)
    ELSE LET md  == integrated_extract_metadata(data)
             d10 == get_wheel_diameter(FileMd(md), saved).diameter
         IN  IF Len(data.points) < 2 THEN NoResult(md, TRUE, FALSE)
             ELSE LET new_feats == ScanFrom(data.points, 1, NoQualityData, d10)
                  IN  IF new_feats = <<>> THEN NoResult(md, TRUE, FALSE)
                      ELSE [present |-> TRUE, features |-> new_feats,
                            has_metadata |-> TRUE, metadata |-> md, error |-> FALSE]

NotRun == [present |-> FALSE, features |-> <<>>, has_metadata |-> FALSE,
           metadata |-> EmptyProps, error |-> FALSE, run |-> FALSE]

Ran(result) == result @@ [run |-> TRUE]

\* property bags of features without coordinates
RevProps ==
    { EmptyProps,
      WheelProps,
      [WheelDiam |-> Val("inch", -260), WheelMm |-> NoValue, other |-> FALSE, rows |-> FALSE],
      [WheelDiam |-> NoValue, WheelMm |-> NoValue, other |-> TRUE, rows |-> FALSE],
      [WheelDiam |-> NoValue, WheelMm |-> NoValue, other |-> FALSE, rows |-> TRUE] }

\* top-level properties of the collection
TopProps ==
    [WheelDiam |-> Val("inch", 275), WheelMm |-> NoValue, other |-> FALSE, rows |-> FALSE]

\* n points one second apart that go to and fro between PosA and PosB
RevPoints(n) ==
    { [k \in 1..n |-> [lon |-> TripPosAt(TRUE, k)[1], lat |-> TripPosAt(TRUE, k)[2],
                       samples |-> SAMPLE_RATE_HZ * (k - 1), hrot |-> h[k],
                       time |-> NoTime]] :
        h \in [1..n -> HRotValues] }

RevDataSet ==
    { [readable |-> TRUE, meta |-> m, has_top |-> t, top |-> IF t THEN TopProps ELSE EmptyProps,
       points |-> pts] :
        m \in UNION { [1..n -> RevProps] : n \in 0..MaxMetaFeatures },
        t \in BOOLEAN,
        pts \in UNION { RevPoints(n) : n \in 2..MaxPoints } }

RevIntegrated ==
    /\ rev_pc = "call"
    /\ ~rev_int.run
    /\ rev_int' = Ran(integrated_process_geojson_file(rev_data, rev_saved, rev_debug))
    /\ rev_pc' = IF rev_cmb.run THEN "done" ELSE "call"
    /\ UNCHANGED <<rev_data, rev_saved, rev_debug, rev_cmb>>
    /\ UNCHANGED notRev

RevCombined ==
    /\ rev_pc = "call"
    /\ ~rev_cmb.run
    /\ rev_cmb' = Ran(combined_process_geojson_file(rev_data, rev_saved, rev_debug))
    /\ rev_pc' = IF rev_int.run THEN "done" ELSE "call"
    /\ UNCHANGED <<rev_data, rev_saved, rev_debug, rev_int>>
    /\ UNCHANGED notRev

RevIdle ==
    /\ rev_data = [readable |-> FALSE, meta |-> <<>>, has_top |-> FALSE, top |-> EmptyProps,
                   points |-> <<>>]
    /\ rev_saved = AbsentEntry
    /\ rev_debug = FALSE
    /\ rev_int = NotRun
    /\ rev_cmb = NotRun
    /\ rev_pc = "idle"

RevInit ==
    /\ rev_data \in RevDataSet
    /\ rev_saved \in {AbsentEntry, CsvEntry(Val("num", 650))}
    /\ rev_debug \in BOOLEAN
    /\ rev_int = NotRun
    /\ rev_cmb = NotRun
    /\ rev_pc = "call"

RevNext == RevIntegrated \/ RevCombined

(***************************************************************************)
(* csv_to_geojson_converter.main over the CSV files of csv_data             *)
(***************************************************************************)
MaxTripNum == 2
MaxRuns == 2

\* sensor_id = file[:5]
Sensors == {"602B3", "604F0"}

\* a file name <prefix>_Trip<num>_clean.geojson, and one that is not of
\* that form
CleanName(prefix, num) == [prefix |-> prefix, num |-> num, clean |-> TRUE]
OtherName == [prefix |-> "602B3", num |-> 1, clean |-> FALSE]

\* re.match(r".*_Trip(\d+)_clean\.geojson", f)
MatchesClean(name) == name.clean

SetMax(S) == CHOOSE x \in S : \A y \in S : y <= x

\* mutant: the next number is the number of clean files plus one
get_next_trip_number_Count(files) ==
    Cardinality({f.name : f \in {g \in files : MatchesClean(g.name)}}) + 1

\* get_next_trip_number: max(existing, default=0) + 1
get_next_trip_number(files) ==
    LET existing == {f.name.num : f \in {g \in files : MatchesClean(g.name)}}
    IN  IF existing = {} THEN 0 + 1 ELSE SetMax(existing) + 1

\* open(path, "w") and json.dump: the file of that name is replaced
WriteFile(files, name, content) ==
    {f \in files : f.name # name} \cup {[name |-> name, content |-> content]}

\* all_metadata[trip_id] = trip_metadata
SetEntry(entries, id, source) ==
    {e \in entries : e.id # id} \cup {[id |-> id, source |-> source]}

\* what was on disk before the first run
OldContent == [csv |-> 0, run |-> 0]

\* the entries csv_to_geojson_converter wrote for the clean files it made
EntriesOf(folder) ==
    UNION { { [id |-> <<s, f.name.num>>, source |-> f.content] :
                f \in { g \in folder[s] : g.name.clean /\ g.name.prefix = s } } :
            s \in Sensors }

CsvLists ==
    { <<"602B3">>, <<"602B3", "602B3">>, <<"602B3", "604F0", "602B3">> }

CvLoop == cv_pc = "loop" /\ cv_idx <= Len(cv_csvs)

\* os.makedirs; load trips_metadata.json if it exists
CvStart ==
    /\ cv_pc = "start"
    /\ cv_all_metadata' = IF cv_store_exists THEN cv_store ELSE {}
    /\ cv_idx' = 1
    /\ cv_assigned' = <<>>
    /\ cv_pc' = "loop"
    /\ UNCHANGED <<cv_csvs, cv_folder, cv_store, cv_store_exists, cv_runs>>
    /\ UNCHANGED notCv

\* one CSV: number, clean file, metadata entry, metadata file
CvConvert ==
    /\ CvLoop
    /\ LET sensor_id == cv_csvs[cv_idx]
           trip_num  == get_next_trip_number(cv_folder[sensor_id])
           content   == [csv |-> cv_idx, run |-> cv_runs]
           md        == SetEntry(cv_all_metadata, <<sensor_id, trip_num>>, content)
       IN  /\ cv_folder' = [cv_folder EXCEPT ![sensor_id] =
                               WriteFile(@, CleanName(sensor_id, trip_num), content)]
           /\ cv_all_metadata' = md
           /\ cv_store' = md
           /\ cv_store_exists' = TRUE
           /\ cv_assigned' = Append(cv_assigned, <<sensor_id, trip_num>>)
    /\ cv_idx' = cv_idx + 1
    /\ UNCHANGED <<cv_csvs, cv_runs, cv_pc>>
    /\ UNCHANGED notCv

\* one CSV, and an error nothing catches: in process_csv (nothing is
\* written), or in json.dump of the clean file (the file open(..., "w") made
\* is there, the metadata lines are not reached)
CvConvertFails ==
    /\ CvLoop
    /\ \E stage \in {"csv", "geojson"} :
          LET sensor_id == cv_csvs[cv_idx]
              trip_num  == get_next_trip_number(cv_folder[sensor_id])
              content   == [csv |-> cv_idx, run |-> cv_runs]
          IN  cv_folder' = IF stage = "geojson"
                           THEN [cv_folder EXCEPT ![sensor_id] =
                                    WriteFile(@, CleanName(sensor_id, trip_num), content)]
                           ELSE cv_folder
    /\ cv_pc' = "crashed"
    /\ UNCHANGED <<cv_csvs, cv_store, cv_store_exists, cv_all_metadata, cv_idx, cv_assigned,
                   cv_runs>>
    /\ UNCHANGED notCv

\* the listing is over
CvFinish ==
    /\ cv_pc = "loop"
    /\ cv_idx > Len(cv_csvs)
    /\ cv_pc' = "done"
    /\ UNCHANGED <<cv_csvs, cv_folder, cv_store, cv_store_exists, cv_all_metadata, cv_idx,
                   cv_assigned, cv_runs>>
    /\ UNCHANGED notCv

\* main is started again; the CSV files are still in csv_data
CvRerun ==
    /\ cv_pc \in {"done", "crashed"}
    /\ cv_runs < MaxRuns
    /\ cv_runs' = cv_runs + 1
    /\ cv_pc' = "start"
    /\ UNCHANGED <<cv_csvs, cv_folder, cv_store, cv_store_exists, cv_all_metadata, cv_idx,
                   cv_assigned>>
    /\ UNCHANGED notCv

CvIdle ==
    /\ cv_csvs = <<>>
    /\ cv_folder = [s \in Sensors |-> {}]
    /\ cv_store = {}
    /\ cv_store_exists = FALSE
    /\ cv_all_metadata = {}
    /\ cv_idx = 1
    /\ cv_assigned = <<>>
    /\ cv_runs = 0
    /\ cv_pc = "idle"

\* an entry whose clean file was removed after it was converted
StaleEntry == [id |-> <<"602B3", MaxTripNum + 1>>, source |-> OldContent]

\* the folders hold clean files of earlier runs, any of which may have been
\* removed since, files of the other sensor put into 602B3, and a file that
\* is not a clean file; trips_metadata.json, when it exists, has the entries
\* of the clean files and perhaps one of a file that was removed
CvInit ==
    /\ cv_csvs \in CsvLists
    /\ \E a \in SUBSET ({CleanName(s, n) : s \in Sensors, n \in 1..MaxTripNum} \cup {OtherName}),
          b \in SUBSET {CleanName("604F0", n) : n \in 1..MaxTripNum} :
          cv_folder = [s \in Sensors |->
                          {[name |-> nm, content |-> OldContent] :
                              nm \in IF s = "602B3" THEN a ELSE b}]
    /\ cv_store_exists \in BOOLEAN
    /\ \E stale \in SUBSET {StaleEntry} :
          cv_store = IF cv_store_exists THEN EntriesOf(cv_folder) \cup stale ELSE {}
    /\ cv_all_metadata = {}
    /\ cv_idx = 1
    /\ cv_assigned = <<>>
    /\ cv_runs = 1
    /\ cv_pc = "start"

CvNext ==
    \/ CvStart
    \/ CvConvert
    \/ CvConvertFails
    \/ CvFinish
    \/ CvRerun

(***************************************************************************)
(* Specifications: one per part of the program, the other parts at rest    *)
(***************************************************************************)
ScanSpecInit == ScanInit /\ ExIdle /\ AggIdle /\ QIdle /\ WheelIdle /\ TripsIdle /\ SpeedIdle /\ CmbIdle /\ ScoreIdle /\ RevIdle /\ CvIdle
SpecScan == ScanSpecInit /\ [][ScanNext]_vars

\* the loop is sequential code: an iteration that can run does run
SpecScanLive == SpecScan /\ WF_vars(ScanNext)

ExtractSpecInit == ExtractInit /\ ScanIdle /\ AggIdle /\ QIdle /\ WheelIdle /\ TripsIdle /\ SpeedIdle /\ CmbIdle /\ ScoreIdle /\ RevIdle /\ CvIdle
SpecExtract == ExtractSpecInit /\ [][ExtractNext]_vars

AggSpecInit == AggInit /\ ScanIdle /\ ExIdle /\ QIdle /\ WheelIdle /\ TripsIdle /\ SpeedIdle /\ CmbIdle /\ ScoreIdle /\ RevIdle /\ CvIdle
SpecAgg == AggSpecInit /\ [][AggNext]_vars

QualitySpecInit == QInit /\ ScanIdle /\ ExIdle /\ AggIdle /\ WheelIdle /\ TripsIdle /\ SpeedIdle /\ CmbIdle /\ ScoreIdle /\ RevIdle /\ CvIdle
SpecQuality == QualitySpecInit /\ [][QNext]_vars

WheelSpecInit == WheelInit /\ ScanIdle /\ ExIdle /\ AggIdle /\ QIdle /\ TripsIdle /\ SpeedIdle /\ CmbIdle /\ ScoreIdle /\ RevIdle /\ CvIdle
SpecWheel == WheelSpecInit /\ [][WheelNext]_vars

TripsSpecInit ==
    TripsInit /\ ScanIdle /\ ExIdle /\ AggIdle /\ QIdle /\ WheelIdle /\ SpeedIdle /\ CmbIdle /\ ScoreIdle /\ RevIdle /\ CvIdle
SpecTrips == TripsSpecInit /\ [][TripsNext]_vars

SpeedSpecInit ==
    SpeedInit /\ ScanIdle /\ ExIdle /\ AggIdle /\ QIdle /\ WheelIdle /\ TripsIdle /\ CmbIdle /\ ScoreIdle /\ RevIdle /\ CvIdle
SpecSpeed == SpeedSpecInit /\ [][SpeedNext]_vars

CombinedSpecInit ==
    CmbInit /\ ScanIdle /\ ExIdle /\ AggIdle /\ QIdle /\ WheelIdle /\ TripsIdle /\ SpeedIdle /\ ScoreIdle /\ RevIdle /\ CvIdle
SpecCombined == CombinedSpecInit /\ [][CmbNext]_vars

ScoreSpecInit ==
    ScoreInit /\ ScanIdle /\ ExIdle /\ AggIdle /\ QIdle /\ WheelIdle /\ TripsIdle /\ SpeedIdle /\ CmbIdle /\ RevIdle /\ CvIdle
SpecScore == ScoreSpecInit /\ [][ScoreNext]_vars

RevisionsSpecInit ==
    RevInit /\ ScanIdle /\ ExIdle /\ AggIdle /\ QIdle /\ WheelIdle /\ TripsIdle /\ SpeedIdle /\ CmbIdle /\ ScoreIdle /\ CvIdle
SpecRevisions == RevisionsSpecInit /\ [][RevNext]_vars

ConverterSpecInit ==
    CvInit /\ ScanIdle /\ ExIdle /\ AggIdle /\ QIdle /\ WheelIdle /\ TripsIdle /\ SpeedIdle /\ CmbIdle /\ ScoreIdle /\ RevIdle
SpecConverter == ConverterSpecInit /\ [][CvNext]_vars

(***************************************************************************)
(* Claims about the segment scan                                           *)
(***************************************************************************)
Emitted == {new_features[k] : k \in 1..Len(new_features)}

\* the loop body ran to a candidate (j inside the list)
HasCandidate == cand.outcome \in {"bad_duration", "gps_jump", "emit", "discard"}

\* C1: no emitted segment has duration <= 0, duration > 600 s, GPS
\* displacement > 1000 m, or final speed >= 100 km/h.
C1_EmittedWithinBounds ==
    /\ \A f \in Emitted :
          /\ f.time_diff_ms > 0
          /\ f.time_diff_ms <= 600 * 1000
          /\ f.gps_distance_dm <= 1000 * 10
          /\ f.Speed < 100 * 10
    /\ cand.outcome = "emit" => cand.gps_mm <= 1000 * 1000

\* a scan that emitted a segment lasting exactly 600 s and rejected another
C1_Witness ==
    /\ scan_pc = "done"
    /\ \E f \in Emitted : f.time_diff_ms = 600 * 1000
    /\ Len(new_features) < Len(points) - 1

\* C2 (as stated): every emitted segment has a wheel-rotation delta > 0.
C2_DeltaPositive == \A f \in Emitted : f.hrot_diff > 0

\* C2 (amended): every emitted segment has a non-zero wheel-rotation delta,
\* a segment with a negative delta carries speed 0, and a candidate with a
\* negative delta is emitted exactly when its duration and GPS displacement
\* are valid and its endpoints differ.
C2_DeltaNonZero ==
    /\ \A f \in Emitted : f.hrot_diff # 0 /\ (f.hrot_diff < 0 => f.Speed = 0)
    /\ (HasCandidate /\ cand.hrot_diff < 0) =>
          (cand.outcome = "emit" <=>
              /\ cand.time_diff_ms > 0
              /\ cand.time_diff_ms <= 600 * 1000
              /\ cand.gps_mm <= 1000 * 1000
              /\ cand.start # cand.end)

\* a segment whose end counter is lower than its start counter was emitted
C2_Witness == cand.outcome = "emit" /\ cand.hrot_diff < 0 /\ cand.feature.Speed = 0

\* C3: a candidate whose raw speed exceeds 40 km/h and whose duration, GPS
\* displacement and endpoints are valid is emitted with speed exactly 40.0,
\* also when the raw speed is 100 km/h or more.
C3_CappedAndEmitted ==
    ( /\ HasCandidate
      /\ RatGT(cand.raw, 40)
      /\ cand.time_diff_ms > 0
      /\ cand.time_diff_ms <= 600 * 1000
      /\ cand.gps_mm <= 1000 * 1000
      /\ cand.start # cand.end )
    => /\ cand.outcome = "emit"
       /\ cand.feature.Speed = 40 * 10
       /\ new_features[Len(new_features)] = cand.feature

\* a candidate with raw speed of at least 100 km/h was emitted at 40.0
C3_Witness ==
    /\ cand.outcome = "emit"
    /\ ~RatLT(cand.raw, 100)
    /\ cand.feature.Speed = 40 * 10

IsSample(n) == agg_input[n].f.gtype = "LineString" /\ agg_input[n].f.Speed # 0
Samples == {n \in 1..Len(agg_input) : IsSample(n)}

Swapped(coords) == <<coords[2], coords[1]>>

\* C4: create_segment_key is symmetric under endpoint swap: the key of A->B
\* equals the key of B->A, so both directions are accumulated in one bucket.
C4_KeySymmetric ==
    /\ \A n \in Samples :
          create_segment_key(Swapped(agg_input[n].f.coords)) = agg_input[n].key
    /\ \A n, m \in Samples :
          (n # m /\ agg_input[n].f.coords = Swapped(agg_input[m].f.coords)) =>
              /\ agg_input[n].key = agg_input[m].key
              /\ segment_data[agg_input[n].key].sample_count >= 2

\* A->B and B->A were both read and share a bucket of exactly two samples
C4_Witness ==
    \E n, m \in Samples :
        /\ agg_input[n].f.coords = <<EndA, EndB>>
        /\ agg_input[m].f.coords = <<EndB, EndA>>
        /\ agg_input[n].key = agg_input[m].key
        /\ segment_data[agg_input[n].key].sample_count = 2

\* the unordered pair of 4-decimal cells of a segment's endpoints
CellPair(coords) ==
    { <<round_coordinate(coords[1][1]), round_coordinate(coords[1][2])>>,
      <<round_coordinate(coords[2][1]), round_coordinate(coords[2][2])>> }

AllCellPairs == {CellPair(c) : c \in AggCoords}

SamplesOf(cells) == {n \in Samples : CellPair(agg_input[n].f.coords) = cells}

OutputOf(cells) == {k \in 1..Len(agg_out) : {agg_out[k].key[1], agg_out[k].key[2]} = cells}

\* C5: a bucket appears in the output if and only if it accumulated at
\* least 2 speed samples (1 sample: excluded, 2 samples: included).
C5_RetainedIffTwoSamples ==
    agg_pc = "done" =>
        \A cells \in AllCellPairs :
            /\ OutputOf(cells) # {} <=> Cardinality(SamplesOf(cells)) >= 2
            /\ Cardinality(OutputOf(cells)) <= 1
            /\ \A k \in OutputOf(cells) :
                  agg_out[k].sample_count = Cardinality(SamplesOf(cells))

\* a bucket with exactly one sample is left out, one with exactly two is in
C5_Witness ==
    /\ agg_pc = "done"
    /\ \E cells \in AllCellPairs : Cardinality(SamplesOf(cells)) = 1 /\ OutputOf(cells) = {}
    /\ \E cells \in AllCellPairs : Cardinality(SamplesOf(cells)) = 2 /\ OutputOf(cells) # {}

\* the speed samples in the order they were read
SampleSeq == SelectSeq(agg_input, LAMBDA e : e.f.gtype = "LineString" /\ e.f.Speed # 0)

\* a whole run of the loop over the samples sq taken in the order ord
RECURSIVE RunInOrder(_, _, _)
RunInOrder(sq, ord, n) ==
    IF n = 0 THEN EmptyAcc
    ELSE Accumulate(RunInOrder(sq, ord, n - 1), sq[ord[n]].f)

OutputInOrder(sq, ord) ==
    LET acc == RunInOrder(sq, ord, Len(sq)) IN BuildOutput(acc.keys, acc.data)

\* what the claim compares: the retained buckets with min, max, median,
\* sample count and dispersion figure
BucketStats(out) ==
    { [key |-> out[k].key, min_speed |-> out[k].min_speed, max_speed |-> out[k].max_speed,
       median_speed |-> out[k].median_speed, sample_count |-> out[k].sample_count,
       speed_variance |-> out[k].speed_variance] : k \in 1..Len(out) }

\* C6: a second run over the same files in the same order yields the same
\* collection, and a run over the same samples in any other order yields the
\* same retained buckets with the same min, max, median, count and dispersion.
C6_OrderIndependent ==
    agg_pc = "done" =>
        /\ OutputInOrder(SampleSeq, [n \in 1..Len(SampleSeq) |-> n]) = agg_out
        /\ \A ord \in Permutations(1..Len(SampleSeq)) :
              BucketStats(OutputInOrder(SampleSeq, ord)) = BucketStats(agg_out)

\* two files gave one bucket two different speeds, the higher one first
C6_Witness ==
    /\ agg_pc = "done"
    /\ \E k \in 1..Len(agg_out) : agg_out[k].min_speed < agg_out[k].max_speed
    /\ \E n, m \in Samples :
          /\ n < m
          /\ agg_input[n].file # agg_input[m].file
          /\ agg_input[n].key = agg_input[m].key
          /\ agg_input[n].f.Speed > agg_input[m].f.Speed

(***************************************************************************)
(* Claims about the quality lookup                                         *)
(***************************************************************************)
\* C7: the lookup returns the level of a window whose representative sample
\* index has the smallest absolute difference to the query (windows
\* [50,150,250], levels [1,3,5], query 120: level 3), and 0 when the trip
\* has no quality windows or no quality data.
C7_NearestWindow ==
    q_pc = "done" =>
        LET tw == q_data.time_windows
            lv == q_data.road_quality
            dist(k) == IF tw[k] >= q_query THEN tw[k] - q_query ELSE q_query - tw[k]
        IN  /\ (~q_data.present \/ Len(tw) = 0) => q_result = 0
            /\ (q_data.present /\ Len(tw) > 0) =>
                  \E k \in 1..Len(tw) :
                      /\ q_result = lv[k]
                      /\ \A m \in 1..Len(tw) : dist(k) <= dist(m)
            /\ (q_data.present /\ tw = <<50, 150, 250>> /\ lv = <<1, 3, 5>> /\ q_query = 120)
                  => q_result = 3

\* the lookup of the example: query 120 resolved to level 3
C7_Witness ==
    /\ q_pc = "done"
    /\ q_data.present
    /\ q_data.time_windows = <<50, 150, 250>>
    /\ q_data.road_quality = <<1, 3, 5>>
    /\ q_query = 120
    /\ q_result = 3

(***************************************************************************)
(* Claims about the wheel diameter                                         *)
(***************************************************************************)
\* a value from which no diameter comes
YieldsNothing(v) ==
    \/ v.kind \in {"none", "empty", "text"}
    \/ v.kind \in {"num", "inch"} /\ v.n = 0

FileYieldsNothing ==
    YieldsNothing(file_metadata.WheelDiam) /\ YieldsNothing(file_metadata.WheelMm)

SavedYieldsNothing ==
    \/ saved_metadata.kind # "dict"
    \/ /\ YieldsNothing(saved_metadata.WheelDiam)
       /\ YieldsNothing(saved_metadata.WheelMm)
       /\ saved_metadata.has_metadata =>
            /\ YieldsNothing(saved_metadata.metadata.WheelDiam)
            /\ YieldsNothing(saved_metadata.metadata.WheelMm)

ReadsFile == last_trip'.outcome \in {"written", "failed"}

AllSameHRot(pts) == \A a, b \in 1..Len(pts) : pts[a].hrot = pts[b].hrot

\* C9: processing a trip whose points all carry the same wheel-rotation
\* counter emits no segment and returns no processed data; the trip gets no
\* output file and is counted as failed, and no error is raised.
C9_MotionlessTripFails ==
    [][ (trip_idx' = trip_idx + 1 /\ ReadsFile /\ last_trip'.file.readable
            /\ AllSameHRot(last_trip'.file.points)) =>
          /\ ~last_trip'.result.present
          /\ last_trip'.result.features = <<>>
          /\ ~last_trip'.result.error
          /\ last_trip'.outcome = "failed"
          /\ out_files' = out_files
          /\ last_trip'.trip \notin out_files'
          /\ failed_files' = failed_files + 1
          /\ processed_files' = processed_files
          /\ total_segments' = total_segments
          /\ trips_pc' = "loop" ]_vars

\* three points at two places, the counter never changing, counted as failed
C9_Witness ==
    /\ last_trip.outcome = "failed"
    /\ last_trip.file.readable
    /\ Len(last_trip.file.points) = 3
    /\ AllSameHRot(last_trip.file.points)
    /\ last_trip.file.points[1].lon # last_trip.file.points[2].lon
    /\ failed_files = 1
    /\ last_trip.trip \notin out_files

(***************************************************************************)
(* Claims about the coordinates and the sample index of extracted points   *)
(***************************************************************************)
ExtractionOver == ex_pc \in {"sorted", "too_few", "error"}

GoodCoord(k) == ex_features[k].coord = "ok"

ExtractedIdx == {ex_points[k].idx : k \in 1..Len(ex_points)}

\* C11: a sample with a missing, zero or non-numeric coordinate is dropped,
\* every other sample of the file is still extracted, and no such sample
\* causes an error or the loss of the file's other points.
C11_BadCoordinateDropped ==
    ExtractionOver =>
        /\ ex_pc # "error"
        /\ ExtractedIdx = {k \in 1..Len(ex_features) : GoodCoord(k)}

\* the field value of the record a point was extracted from
SamplesField(p) == ex_features[p.idx].Samples

Malformed(raw) == raw.kind \notin {"int", "numstr"}

\* C12 as stated: the sample index is 0 whenever the sample-index field is
\* absent or malformed (not an integer), for every such field value.
C12_MalformedIsZero ==
    \A k \in 1..Len(ex_points) :
        Malformed(SamplesField(ex_points[k])) => ex_points[k].samples = 0

\* C12: the sample index is 0 when the field is absent, null, empty or a
\* string that is neither an integer nor a date; a float gives its integer
\* part and a date string gives its epoch time in milliseconds.
C12_SampleIndexDefault ==
    \A k \in 1..Len(ex_points) :
        LET raw == SamplesField(ex_points[k])
            got == ex_points[k].samples
        IN  /\ raw.kind \in {"absent", "none", "empty", "text"} => got = 0
            /\ raw.kind \in {"int", "numstr", "float"} => got = raw.val
            /\ raw.kind = "isodate" => (got = raw.val /\ got # 0)

\* a date string and a float among the sample-index fields of one file
C12_Witness ==
    /\ ex_pc = "sorted"
    /\ \E k \in 1..Len(ex_points) :
          /\ SamplesField(ex_points[k]).kind = "isodate"
          /\ ex_points[k].samples = 86400000
    /\ \E k \in 1..Len(ex_points) :
          /\ SamplesField(ex_points[k]).kind = "float"
          /\ ex_points[k].samples = 2

DistanceMm == RoundHalfEven(sp_out.distance.num, sp_out.distance.den)
SpeedCentiKmh == RoundHalfEven(100 * sp_out.speed.num, sp_out.speed.den)

SpeedExample ==
    sp_pc = "done" /\ sp_hrot_diff = 4 /\ sp_d10 = 7110 /\ sp_time_ms = 1000

SpeedsOf(key) ==
    LET sel == SelectSeq(agg_input, LAMBDA e :
                   e.f.gtype = "LineString" /\ e.f.Speed # 0 /\ e.key = key)
    IN  [k \in 1..Len(sel) |-> sel[k].f.Speed]

FirstCoordsOf(key) ==
    LET n == CHOOSE n \in Samples :
                /\ agg_input[n].key = key
                /\ \A m \in Samples : agg_input[m].key = key => n <= m
    IN  agg_input[n].f.coords

\* C15: a segment is left out of every bucket (speed list, sample count,
\* representative geometry) exactly when its speed is zero; every non-zero
\* line segment read from a file is accumulated in exactly one bucket.
C15_ZeroSpeedExcluded ==
    /\ \A n \in 1..Len(agg_input) :
          agg_input[n].f.gtype = "LineString" =>
              (agg_input[n].accepted <=> agg_input[n].f.Speed # 0)
    /\ DOMAIN segment_data = {agg_input[n].key : n \in Samples}
    /\ \A key \in DOMAIN segment_data :
          /\ segment_data[key].speeds = SpeedsOf(key)
          /\ segment_data[key].sample_count = Len(SpeedsOf(key))
          /\ segment_data[key].coords = FirstCoordsOf(key)
          /\ \A k \in 1..Len(segment_data[key].speeds) : segment_data[key].speeds[k] # 0

\* a stopped segment and a moving one on the same road: the bucket has the
\* moving one only
C15_Witness ==
    /\ \E n \in 1..Len(agg_input) :
          /\ agg_input[n].f.gtype = "LineString"
          /\ agg_input[n].f.Speed = 0
          /\ agg_input[n].f.coords = <<EndA, EndB>>
    /\ \E n \in Samples :
          /\ agg_input[n].f.coords = <<EndA, EndB>>
          /\ segment_data[agg_input[n].key].sample_count = 1

\* the k-th smallest of the speeds of a bucket
IsKthSmallest(v, speeds, k) ==
    /\ \E n \in 1..Len(speeds) : speeds[n] = v
    /\ Cardinality({n \in 1..Len(speeds) : speeds[n] < v}) <= k - 1
    /\ Cardinality({n \in 1..Len(speeds) : speeds[n] <= v}) >= k

BucketOf(k) == segment_data[agg_out[k].key]

\* C16 as stated: for an even number of speeds the median is the lower of
\* the two middle values of the sorted speeds.
C16_LowerMedian ==
    agg_pc = "done" =>
        \A k \in 1..Len(agg_out) :
            LET n == agg_out[k].sample_count
            IN  n % 2 = 0 => IsKthSmallest(agg_out[k].median_speed, BucketOf(k).speeds, n \div 2)

\* C16: for an even number of speeds the median is the upper of the two
\* middle values of the sorted speeds (index len // 2, counted from 0); for
\* an odd number it is the middle value.
C16_UpperMedian ==
    agg_pc = "done" =>
        \A k \in 1..Len(agg_out) :
            LET n == agg_out[k].sample_count
            IN  /\ n = Len(BucketOf(k).speeds)
                /\ n % 2 = 0 =>
                      IsKthSmallest(agg_out[k].median_speed, BucketOf(k).speeds, n \div 2 + 1)
                /\ n % 2 = 1 =>
                      IsKthSmallest(agg_out[k].median_speed, BucketOf(k).speeds, (n + 1) \div 2)

\* a bucket of the two speeds 12.0 and 25.0, read in this order or the
\* other, with median 25.0
C16_Witness ==
    /\ agg_pc = "done"
    /\ \E k \in 1..Len(agg_out) :
          /\ agg_out[k].sample_count = 2
          /\ agg_out[k].min_speed = 120
          /\ agg_out[k].max_speed = 250
          /\ agg_out[k].median_speed = 250

\* the files whose iteration raised
RaisedFiles == {agg_input[n].file : n \in {m \in 1..Len(agg_input) : agg_input[m].f.gtype = "Malformed"}}

\* C17: a per-trip file that raises while it is read or its features are
\* iterated is skipped as a whole: it contributes no speed sample, sample
\* count or geometry to any bucket.
C17_MalformedFileSkipped ==
    \A n \in 1..Len(agg_input) :
        agg_input[n].file \in RaisedFiles => ~agg_input[n].accepted

(***************************************************************************)
(* Claims about failures in process_all_trips                              *)
(***************************************************************************)
\* C18: when process_geojson_file hits an error (at load, in extraction or
\* after segments were built) it returns no processed data, no segment of
\* the file reaches an output file, the trip is counted as failed and the
\* loop goes on with the remaining files.
C18_ErrorSkipsWholeFile ==
    [][ (trip_idx' = trip_idx + 1 /\ ReadsFile /\ last_trip'.result.error) =>
          /\ ~last_trip'.result.present
          /\ last_trip'.result.features = <<>>
          /\ last_trip'.outcome = "failed"
          /\ out_files' = out_files
          /\ partial_files' = partial_files
          /\ last_trip'.trip \notin out_files'
          /\ failed_files' = failed_files + 1
          /\ total_segments' = total_segments
          /\ trips_pc' = "loop" ]_vars

\* the first file raised after two segments were built and has no output;
\* the loop stands at the second file
C18_Witness ==
    /\ trip_log = <<"error">>
    /\ last_trip.result.error
    /\ Len(last_trip.result.discarded) = 2
    /\ last_trip.trip \notin out_files
    /\ trips_pc = "loop"
    /\ trip_idx = 2

\* C19: a trip's output file is written in full or not at all: in every
\* state, also after a failure in the middle of writing, the output path
\* does not exist or holds the complete collection, and no later run takes
\* a partial file for an already-processed trip.
C19_WrittenInFullOrNotAtAll ==
    /\ partial_files = {}
    /\ ~(last_trip.outcome = "already" /\ last_trip.trip \in partial_files)

\* C20: a failure to write one trip's output affects that trip only: the
\* loop goes on and the trips after it are processed and written.
C20_WriteFailureLocal ==
    (\E k \in 1..Len(trip_log) : trip_log[k] = "write_error") => trips_pc \in {"loop", "done"}

(***************************************************************************)
(* Claims about trips_metadata.json                                        *)
(***************************************************************************)
\* C21: the trip metadata store is read-only for process_all_trips: no step
\* of a run changes the contents of trips_metadata.json.
C21_StoreReadOnly == [][cmb_store' = cmb_store]_vars

(***************************************************************************)
(* Claims about trips without quality data                                 *)
(***************************************************************************)
ScoreUnavailable == sc_n <= 200 \/ sc_scorer.raises

StripQuality(feats) == [k \in 1..Len(feats) |-> WithoutQuality(feats[k])]

\* C22: when the trip has at most 200 acceleration values, or the scorer
\* raises, road_quality_data is None, every emitted segment has
\* road_quality 0, and the segments are those the scan emits for the points
\* whatever the quality data.
C22_UnknownQualityKeepsSegments ==
    /\ (sc_pc \in {"scan", "done"} /\ ScoreUnavailable) => sc_rqd = NoQualityData
    /\ (sc_pc = "done" /\ ScoreUnavailable) =>
          /\ \A k \in 1..Len(sc_features) : sc_features[k].road_quality = 0
          /\ \A q \in QualityChoices :
                StripQuality(sc_features)
                    = StripQuality(ScanFrom(sc_points, 1, q, DEFAULT_WHEEL_DIAMETER_MM * 10))

\* a trip of exactly 200 values whose scorer would have given scores: two
\* segments, both with road_quality 0
C22_Witness ==
    /\ sc_pc = "done"
    /\ sc_n = 200
    /\ ~sc_scorer.raises
    /\ Len(sc_scorer.data.road_quality) > 0
    /\ Len(sc_features) = 2
    /\ \A k \in 1..Len(sc_features) : sc_features[k].road_quality = 0

(***************************************************************************)
(* Claims about the cursors of the segment scan                            *)
(***************************************************************************)
\* the indices after k whose counter differs from the counter at k
Changed(k) == {j \in (k + 1)..Len(points) : points[j].hrot # points[k].hrot}

\* C23: in every iteration started at i the end candidate j is the smallest
\* index greater than i whose counter differs from the counter at i, every
\* point strictly between them has the counter of i, and when there is no
\* such index the scan stops and emits nothing more.
C23_EndCandidateIsNextChange ==
    [][ (scan_pc = "scan" /\ i < Len(points)) =>
          IF Changed(i) = {}
          THEN /\ cand'.outcome = "break"
               /\ scan_pc' = "done"
               /\ new_features' = new_features
          ELSE /\ cand'.i = i
               /\ cand'.j \in Changed(i)
               /\ \A j \in Changed(i) : cand'.j <= j
               /\ \A m \in (i + 1)..(cand'.j - 1) : points[m].hrot = points[i].hrot ]_vars

\* a segment that skipped a point with an unchanged counter was emitted
\* and the scan then stopped at the last point
C23_Witness ==
    /\ scan_pc = "done"
    /\ Len(points) = 3
    /\ Len(new_features) = 1
    /\ new_features[1].start = <<points[1].lon, points[1].lat>>
    /\ new_features[1].end = <<points[3].lon, points[3].lat>>
    /\ points[2].hrot = points[1].hrot
    /\ points[2].lon # points[3].lon

\* the first index after k whose counter differs
FirstChanged(k) == CHOOSE j \in Changed(k) : \A m \in Changed(k) : j <= m

\* duration in (0, 600 s], displacement at most 1000 m, endpoints apart
ValidPair(sp, ep) ==
    /\ TimeDiffMs(sp, ep) > 0
    /\ TimeDiffMs(sp, ep) <= 600 * 1000
    /\ haversine_distance(sp.lon, sp.lat, ep.lon, ep.lat) <= 1000 * 1000
    /\ <<sp.lon, sp.lat>> # <<ep.lon, ep.lat>>

\* C24: after every candidate (i, j), whatever its outcome, the scan goes
\* on with i = j; and a candidate that is valid is emitted whatever happened
\* to the candidates before it.
C24_RejectionDoesNotAbort ==
    [][ (scan_pc = "scan" /\ i < Len(points) /\ Changed(i) # {}) =>
          /\ cand'.outcome \in {"bad_duration", "gps_jump", "emit", "discard"}
          /\ i' = FirstChanged(i)
          /\ scan_pc' = "scan"
          /\ ValidPair(points[i], points[FirstChanged(i)]) =>
                /\ cand'.outcome = "emit"
                /\ Len(new_features') = Len(new_features) + 1
                /\ new_features'[Len(new_features')].start = <<points[i].lon, points[i].lat>>
                /\ SubSeq(new_features', 1, Len(new_features)) = new_features ]_vars

\* the first candidate was rejected for its duration of 0 and the second,
\* which starts where the first ended, was emitted
C24_Witness ==
    /\ cand.outcome = "emit"
    /\ cand.i = 2
    /\ Len(new_features) = 1
    /\ points[1].hrot # points[2].hrot
    /\ DurationRejected(TimeDiffMs(points[1], points[2]))

\* C25: the scan terminates: every iteration that goes on moves the start
\* cursor forward, the loop is left when i is at the last point or j ran
\* past the end, and every run reaches that point.
C25_ScanTerminates ==
    /\ [][ scan_pc' = "scan" => (i' > i /\ i' <= Len(points)) ]_<<i, cand>>
    /\ [](scan_pc = "done" => (i = Len(points) \/ cand.outcome = "break"))
    /\ <>(scan_pc = "done")

\* a scan of three points that took two iterations and left the loop with
\* the cursor at the last point
C25_Witness ==
    /\ scan_pc = "done"
    /\ Len(points) = 3
    /\ i = 3
    /\ cand.outcome \in {"bad_duration", "gps_jump", "emit", "discard"}
    /\ cand.i = 2

(***************************************************************************)
(* Claims about the geometry of a bucket                                   *)
(***************************************************************************)
\* the entry the step has appended to the log of features read
JustRead == agg_input'[Len(agg_input')]

\* C26: a bucket's geometry is the unrounded coordinates of the first
\* segment inserted into it: the first insertion stores the segment's own
\* coordinates, a later segment with the same key appends its speed and
\* adds one to the count and leaves the geometry as it is, and the output
\* feature of the bucket carries that geometry.
C26_FirstSeenGeometry ==
    [][ /\ \A key \in DOMAIN segment_data :
              /\ key \in DOMAIN segment_data'
              /\ segment_data'[key].coords = segment_data[key].coords
        /\ (Len(agg_input') = Len(agg_input) + 1 /\ JustRead.accepted) =>
              IF JustRead.key \in DOMAIN segment_data
              THEN /\ segment_data'[JustRead.key].speeds
                        = Append(segment_data[JustRead.key].speeds, JustRead.f.Speed)
                   /\ segment_data'[JustRead.key].sample_count
                        = segment_data[JustRead.key].sample_count + 1
              ELSE /\ segment_data'[JustRead.key].coords = JustRead.f.coords
                   /\ segment_data'[JustRead.key].sample_count = 1
        /\ agg_pc' = "done" =>
              \A k \in 1..Len(agg_out') :
                  agg_out'[k].coords = FirstCoordsOf(agg_out'[k].key) ]_vars

\* a bucket first entered by B->A and then by A2->B, whose endpoint A2
\* rounds to the cell of A: the output has the coordinates B->A
C26_Witness ==
    /\ agg_pc = "done"
    /\ \E k \in 1..Len(agg_out) :
          /\ agg_out[k].coords = <<EndB, EndA>>
          /\ agg_out[k].sample_count = 2
          /\ \E n \in Samples :
                /\ agg_input[n].key = agg_out[k].key
                /\ agg_input[n].f.coords = <<EndA2, EndB>>

(***************************************************************************)
(* Claims about the speed of emitted segments                              *)
(***************************************************************************)
\* C27: every segment emitted by either revision has an output speed from
\* 0 to 40 km/h inclusive.
C27_SpeedWithinCap ==
    /\ \A k \in 1..Len(rev_int.features) :
          rev_int.features[k].Speed >= 0 /\ rev_int.features[k].Speed <= 40 * 10
    /\ \A k \in 1..Len(rev_cmb.features) :
          rev_cmb.features[k].Speed >= 0 /\ rev_cmb.features[k].Speed <= 40 * 10

(***************************************************************************)
(* Claims about the two revisions                                          *)
(***************************************************************************)
\* C30: for the same file, trip and saved metadata both revisions return
\* processed data or both return none, and the segments of the combined
\* revision are those of the integrated one without road_quality.
C30_RevisionsAgree ==
    (rev_int.run /\ rev_cmb.run) =>
        /\ rev_cmb.present = rev_int.present
        /\ rev_cmb.features = StripQuality(rev_int.features)

(***************************************************************************)
(* Claims about running process_all_trips again                            *)
(***************************************************************************)
\* the trip the loop is at
CurrentTrip == TripList[trip_idx]

\* this step opened an output file for writing
OutputOpened ==
    /\ last_trip' # last_trip
    /\ \/ last_trip'.outcome = "written"
       \/ last_trip'.outcome = "write_error" /\ out_files' # out_files

\* C28: a trip whose output file exists is counted as already processed and
\* its file is not opened for writing, a trip on the skip list gets no
\* output file, and no step of any run, first or later, removes or rewrites
\* an output file that exists.
C28_RerunKeepsOutputs ==
    [][ /\ out_files \subseteq out_files'
        /\ OutputOpened => last_trip'.trip \notin out_files
        /\ (TripLoop /\ trip_idx' = trip_idx + 1) =>
              /\ Skipped(CurrentTrip) =>
                    /\ out_files' = out_files
                    /\ skipped_files' = skipped_files + 1
              /\ (~Skipped(CurrentTrip) /\ TripId(CurrentTrip) \in out_files) =>
                    /\ out_files' = out_files
                    /\ already_processed' = already_processed + 1
                    /\ processed_files' = processed_files
                    /\ last_trip'.outcome = "already"
      ]_vars

\* a run over outputs that all exist is over: both trips of 602B3 were
\* counted as already processed, the trip on the skip list has no output
C28_Witness ==
    /\ trips_pc = "done"
    /\ already_processed = 2
    /\ skipped_files = 1
    /\ processed_files = 0
    /\ out_files = {<<"602B3", "Trip1">>, <<"602B3", "Trip2">>}

(***************************************************************************)
(* Claims about the trip numbers of csv_to_geojson_converter               *)
(***************************************************************************)
\* the files this step made in the folder of sensor s
NewFiles(s) == {g \in cv_folder'[s] : \A f \in cv_folder[s] : f.name # g.name}

\* the entries of cv_assigned before the last one that are of its sensor
EarlierOfSensor(log) ==
    {k \in 1..(Len(log) - 1) : log[k][1] = log[Len(log)][1]}

\* the trip ids of the files this step made
NewIds == UNION { { <<g.name.prefix, g.name.num>> : g \in NewFiles(s) } : s \in Sensors }

\* every entry of trips_metadata.json is that of a clean file in its folder
StoreMatchesFolders ==
    \A e \in cv_store :
        \E f \in cv_folder[e.id[1]] : f.name = CleanName(e.id[1], e.id[2])

====
